---- MODULE Spec2Model ----
(***************************************************************************)
(* Model of the download coordinator of the Steam Workshop Downloader      *)
(* (src/download_manager.py): DownloadManager, which runs on the UI thread *)
(* of the Qt event loop, and its DownloadThread workers, which run         *)
(* concurrently with it and report back through queued signals.            *)
(*                                                                         *)
(* And of the TTL cache (src/cache.py): Cache, whose public methods run    *)
(* under one reentrant lock, over its in-memory map and the record files   *)
(* of its cache directory.                                                 *)
(*                                                                         *)
(* And of the loader threads (src/worker.py): GameLoaderThread,            *)
(* WorkshopLoaderThread and SearchThread, which read the cache, fetch from *)
(* the catalog of src/steam_api.py on a miss, store and emit the result,   *)
(* and poll a cancellation flag between their work units.                  *)
(*                                                                         *)
(* Strings are sequences of one-character strings, so that the filename    *)
(* generation is computed the way the code computes it.                    *)
(***************************************************************************)
EXTENDS Integers, Sequences, FiniteSets, TLC

(***************************************************************************)
(* Bounds of the model.                                                    *)
(***************************************************************************)
\* the largest value passed to set_max_concurrent_downloads
MaxLimit == 2
\* the longest download_queue explored
MaxQueue == 2
\* the largest number of chunks a response body delivers
MaxChunks == 1
\* the most worker signals queued for the UI thread at once
MaxEvents == 1
\* the latest time.time() explored, in seconds since the cache was built
MaxTime == 2
\* the largest ttl passed to Cache.set
MaxTtl == 0
\* the default_ttl the cache is constructed with, in seconds
CacheDefaultTtl == 1

(***************************************************************************)
(* Program constants.                                                      *)
(***************************************************************************)
\* self.max_concurrent_downloads = 3
DefaultMaxConcurrent == 3
\* safe_title ... [:50]
TitleCap == 50

(***************************************************************************)
(* Python values.                                                          *)
(***************************************************************************)
\* Python's None, kept apart from the empty string
None == <<"<None>">>

\* truthiness of an Optional[str]
Truthy(s) == s /= None /\ s /= <<>>

\* dict.get(key, default)
Get(d, k, default) == IF k \in DOMAIN d THEN d[k] ELSE default

Range(s) == {s[i] : i \in DOMAIN s}

\* a function with one key removed (del d[k])
Del(f, k) == [x \in DOMAIN f \ {k} |-> f[x]]

\* "".join(c for c in s if keep(c))
RECURSIVE Filter(_, _)
Filter(s, keep) ==
    IF s = <<>> THEN <<>>
    ELSE IF Head(s) \in keep THEN <<Head(s)>> \o Filter(Tail(s), keep)
    ELSE Filter(Tail(s), keep)

\* str.rstrip(): trailing whitespace removed
RECURSIVE RStrip(_)
RStrip(s) ==
    IF s /= <<>> /\ s[Len(s)] = " " THEN RStrip(SubSeq(s, 1, Len(s) - 1)) ELSE s

\* str.replace(' ', '_')
ReplaceSpace(s) == [i \in DOMAIN s |-> IF s[i] = " " THEN "_" ELSE s[i]]

\* s[:n]
Prefix(s, n) == SubSeq(s, 1, IF Len(s) < n THEN Len(s) ELSE n)

\* str.rfind('.'), 1-based; only used when '.' occurs in s
RFindDot(s) == CHOOSE i \in DOMAIN s : s[i] = "." /\ \A j \in DOMAIN s : s[j] = "." => j <= i

\* the characters c with c.isalnum() among those the model's strings use
Alnum == {"a", "b", "c", "d", "e", "h", "i", "k", "m", "n", "o", "p", "r", "s",
          "t", "u", "w", "z", "1", "2", "3"}

(***************************************************************************)
(* Workshop items (item_data dictionaries) handed to start_download.       *)
(***************************************************************************)
\* the one download directory the UI passes
DownloadDir == <<"d">>

ItemA == [title |-> <<"a", ":">>, publishedfileid |-> <<"1">>, file_url |-> <<"u">>]
ItemB == [title |-> <<"b", " ", "c">>, publishedfileid |-> <<"2">>, file_url |-> <<>>,
          filename |-> <<"m", ".", "c">>]
\* an item with neither a direct URL nor an identifier
ItemNoUrl == [title |-> <<"b">>]

\* the items the UI passes while transfers run
ItemData == {ItemA, ItemB, ItemNoUrl}

\* further items, for a burst of start_download calls
ItemC == [title |-> <<"c">>, publishedfileid |-> <<"3">>, filename |-> <<"c">>]
ItemD == [title |-> <<"-", "d", " ">>, publishedfileid |-> <<"4">>]
BurstItems == ItemData \cup {ItemC, ItemD}

(***************************************************************************)
(* DownloadManager._get_download_url and _generate_filename.               *)
(***************************************************************************)
\* the identifier's URL taken in preference to the direct one
GetDownloadUrlPreferId(item_data) ==
    LET published_file_id == Get(item_data, "publishedfileid", None)
    IN IF Truthy(published_file_id)
       THEN <<"https://steamworkshopdownloader.io/download/">> \o published_file_id
       ELSE IF "file_url" \in DOMAIN item_data /\ Truthy(item_data["file_url"])
       THEN item_data["file_url"]
       ELSE None

_get_download_url(item_data) ==
    IF "file_url" \in DOMAIN item_data /\ Truthy(item_data["file_url"])
    THEN item_data["file_url"]
    ELSE LET published_file_id == Get(item_data, "publishedfileid", None)
         IN IF Truthy(published_file_id)
            THEN <<"https://steamworkshopdownloader.io/download/">> \o published_file_id
            ELSE None

_generate_filename(item_data) ==
    LET title == Get(item_data, "title",
                     <<"w", "o", "r", "k", "s", "h", "o", "p", "_", "i", "t", "e", "m">>)
        kept == RStrip(Filter(title, Alnum \cup {" ", "-", "_"}))
        safe_title == Prefix(ReplaceSpace(kept), TitleCap)
        file_id == Get(item_data, "publishedfileid", <<"u", "n", "k", "n", "o", "w", "n">>)
        filename == Get(item_data, "filename", <<>>)
        extension == IF filename /= <<>> /\ "." \in Range(filename)
                     THEN SubSeq(filename, RFindDot(filename), Len(filename))
                     ELSE <<".", "z", "i", "p">>
    IN safe_title \o <<"_">> \o file_id \o extension

\* os.path.join(download_dir, filename)
PathJoin(dir, filename) == dir \o <<"/">> \o filename

\* the destination path start_download computes for an item
PathOf(item_data) == PathJoin(DownloadDir, _generate_filename(item_data))

Paths == {PathOf(i) : i \in ItemData}

\* the file_path argument of a signal that carries ""
NoPath == <<>>

(***************************************************************************)
(* State.                                                                  *)
(***************************************************************************)
VARIABLES
    \* DownloadManager.active_downloads: file_path -> DownloadThread, the
    \* thread object given by its fields and the position of its run()
    active_downloads,
    \* DownloadManager.download_queue: sequence of (item_data, download_dir)
    download_queue,
    \* DownloadManager.max_concurrent_downloads
    max_concurrent_downloads,
    \* queued signal deliveries from the workers to the UI thread, oldest first
    events,
    \* the destination paths at which a file exists
    files,
    \* history: the number of start_download calls made so far when the only
    \* calls yet were start_download calls for resolvable items with pairwise
    \* distinct paths (set_max_concurrent_downloads before the first of them
    \* allowed); -1 otherwise
    startsOnly,
    \* Cache._memory_cache: key -> (data, timestamp, ttl)
    _memory_cache,
    \* the files of Cache.cache_dir: file name -> pickled record, or Corrupt
    cache_files,
    \* time.time(), in whole seconds
    now,
    \* the last call made on the cache: what it returned, how often it called
    \* factory_func, whether it raised, and the keys whose entries it deleted
    last,
    \* history: for each key, the entry of the last set of this process that
    \* returned, unless a delete, an invalidate_pattern that matched the key or
    \* a clear came after it
    written,
    \* the loader thread that runs: its fields, the locals of run() and its
    \* position in it
    task,
    \* history: the signals the loader thread emitted, oldest first, and the
    \* numbers of its fetches from the API, cache reads, cache writes and
    \* fetches that raised
    taskLog,
    \* ImageLoader.active_requests: network reply -> target label
    active_requests,
    \* ImageLoader.loading_labels: the labels an image is being loaded for
    loading_labels,
    \* the files of ImageLoader.cache_dir: file name -> (mtime, image data)
    image_files,
    \* the replies the network manager has issued and neither finished nor
    \* aborted yet
    network,
    \* the number of replies the network manager has created
    replies_created,
    \* the last call made on the image loader: the signals it emitted, the
    \* replies it issued and the cache files it deleted
    last_image

dmVars == <<active_downloads, download_queue, max_concurrent_downloads,
            events, files, startsOnly>>

cacheVars == <<_memory_cache, cache_files, now, last, written>>

loaderVars == <<task, taskLog>>

imageVars == <<active_requests, loading_labels, image_files, network,
               replies_created, last_image>>

vars == <<active_downloads, download_queue, max_concurrent_downloads,
          events, files, startsOnly, _memory_cache, cache_files, now, last,
          written, task, taskLog, active_requests, loading_labels,
          image_files, network, replies_created, last_image>>

\* last_image before the first call on the image loader
NoCall == [op |-> "__init__", url |-> <<>>, label |-> "", emitted |-> <<>>,
           issued |-> {}, removed |-> {}]

\* no loader thread was created yet
NoTask ==
    [kind |-> "none", query |-> <<>>, app_id |-> 0, page |-> 0, per_page |-> 0,
     is_cancelled |-> FALSE, pc |-> "done",
     cached |-> [is_none |-> TRUE, value |-> <<>>],
     fetched |-> <<>>, processed_items |-> <<>>, i |-> 0, all_games |-> <<>>]

NoLog == [emitted |-> <<>>, fetches |-> 0, reads |-> 0, writes |-> 0, failures |-> 0]

\* DownloadThread.__init__; pc is the position of run(), downloaded_size its
\* local, file_bytes the number of bytes it wrote through f, emitted the
\* history of its progress_updated emissions (the downloaded size each
\* carried and the bytes written by then), and terminal the history of its
\* terminal emission: "none", "finished" or "error"
NewThread(url, file_path, item_data) ==
    [url |-> url, file_path |-> file_path, item_data |-> item_data,
     is_cancelled |-> FALSE, pc |-> "start", downloaded_size |-> 0,
     file_bytes |-> 0, emitted |-> <<>>, terminal |-> "none"]

\* a cancel_download that also takes the calls for the path out of the queue
CancelDownloadDroppingQueued(m, file_path) ==
    [m EXCEPT !.active = [p \in DOMAIN @ |->
                             IF p = file_path THEN [@[p] EXCEPT !.is_cancelled = TRUE]
                             ELSE @[p]],
              !.queue = SelectSeq(@, LAMBDA call :
                            PathJoin(call[2], _generate_filename(call[1])) /= file_path),
              !.ret = IF file_path \in DOMAIN m.active THEN "True" ELSE "False"]

\* a progress count that goes up by one per chunk, whatever its length
WriteChunkCountingChunks(thread, len) ==
    [thread EXCEPT !.pc = "loop",
                   !.file_bytes = @ + len,
                   !.downloaded_size = @ + 1,
                   !.emitted = Append(@, [downloaded |-> thread.downloaded_size + 1,
                                          written |-> thread.file_bytes + len])]

\* "f.write(chunk); downloaded_size += len(chunk); ...
\*  self.progress_updated.emit(downloaded_size, total_size, percentage)"
WriteChunk(thread, len) ==
    [thread EXCEPT !.pc = "loop",
                   !.file_bytes = @ + len,
                   !.downloaded_size = @ + len,
                   !.emitted = Append(@, [downloaded |-> thread.downloaded_size + len,
                                          written |-> thread.file_bytes + len])]

\* DownloadThread.cancel
cancel(thread) == [thread EXCEPT !.is_cancelled = TRUE]

\* QThread.isFinished
isFinished(thread) == thread.pc = "done"

\* the coordinator's fields as one value, for the methods below; signals
\* collects what the method emits, in order, each emission with the active
\* set and queue length its receivers see, and ret is what it returns
\* ("True", "False", "None")
Manager ==
    [active |-> active_downloads, queue |-> download_queue,
     max |-> max_concurrent_downloads,
     signals |-> <<>>, ret |-> "None", overflow |-> FALSE]

\* signal.emit(...) of one of DownloadManager's signals
Emit(m, sig, path) ==
    [m EXCEPT !.signals = Append(@, [sig |-> sig, path |-> path,
                                     active |-> DOMAIN m.active,
                                     queued |-> Len(m.queue)])]

(***************************************************************************)
(* DownloadManager's methods, as functions of the coordinator's fields.    *)
(* overflow marks a result outside the model's bounds.                     *)
(***************************************************************************)
_start_download_thread(m, item_data, download_url, file_path) ==
    LET m1 == [m EXCEPT !.active =
                   (file_path :> NewThread(download_url, file_path, item_data)) @@ @]
    IN [Emit(m1, "download_started", file_path) EXCEPT !.ret = "True"]

\* the limit check gone off by one (">" for ">=")
LimitReachedOffByOne(m) == Cardinality(DOMAIN m.active) > m.max

\* "if len(self.active_downloads) >= self.max_concurrent_downloads"
LimitReached(m) == Cardinality(DOMAIN m.active) >= m.max

\* "if file_path in self.active_downloads"
AlreadyDownloading(m, file_path) == file_path \in DOMAIN m.active

\* a deferred call accepted without being put in the queue
EnqueueDropped(m, item_data, download_dir) == [m EXCEPT !.ret = "True"]

\* "self.download_queue.append((item_data, download_dir)); return True"
Enqueue(m, item_data, download_dir) ==
    [m EXCEPT !.queue = Append(@, <<item_data, download_dir>>), !.ret = "True"]

start_download(m, item_data, download_dir) ==
    LET download_url == _get_download_url(item_data)
        file_path == PathJoin(download_dir, _generate_filename(item_data))
    IN IF ~Truthy(download_url)
       THEN [Emit(m, "download_error", NoPath) EXCEPT !.ret = "False"]
       ELSE IF AlreadyDownloading(m, file_path)
       THEN [Emit(m, "download_error", file_path) EXCEPT !.ret = "False"]
       ELSE IF LimitReached(m)
       THEN IF Len(m.queue) >= MaxQueue THEN [m EXCEPT !.overflow = TRUE]
            ELSE Enqueue(m, item_data, download_dir)
       ELSE _start_download_thread(m, item_data, download_url, file_path)

_start_next_download(m) ==
    IF m.queue /= <<>> /\ Cardinality(DOMAIN m.active) < m.max
    THEN [start_download([m EXCEPT !.queue = Tail(@)],
                         Head(m.queue)[1], Head(m.queue)[2]) EXCEPT !.ret = "None"]
    ELSE m

\* "if file_path in self.active_downloads: ... del self.active_downloads[file_path]"
RemoveActive(m, file_path) ==
    IF file_path \in DOMAIN m.active
    THEN [m EXCEPT !.active = Del(@, file_path)]
    ELSE m

_on_download_finished(m, file_path, final_path) ==
    LET m1 == RemoveActive(m, file_path)
        m2 == Emit(m1, "download_finished", file_path)
        m3 == _start_next_download(m2)
    IN IF DOMAIN m3.active = {} /\ m3.queue = <<>>
       THEN Emit(m3, "all_downloads_finished", NoPath)
       ELSE m3

_on_download_error(m, file_path, error_message) ==
    LET m1 == RemoveActive(m, file_path)
        m2 == Emit(m1, "download_error", file_path)
    IN _start_next_download(m2)

cancel_download(m, file_path) ==
    IF file_path \in DOMAIN m.active
    THEN [m EXCEPT !.active[file_path] = cancel(@), !.ret = "True"]
    ELSE [m EXCEPT !.ret = "False"]

cancel_all_downloads(m) ==
    [m EXCEPT !.active = [p \in DOMAIN @ |-> cancel(@[p])],
              !.queue = <<>>]

\* the while loop of set_max_concurrent_downloads
RECURSIVE StartWhileRoom(_)
StartWhileRoom(m) ==
    IF Cardinality(DOMAIN m.active) < m.max /\ m.queue /= <<>>
    THEN StartWhileRoom(_start_next_download(m))
    ELSE m

set_max_concurrent_downloads(m, max_downloads) ==
    IF max_downloads > 0
    THEN StartWhileRoom([m EXCEPT !.max = max_downloads])
    ELSE m

clear_completed_downloads(m) ==
    LET completed_threads == {p \in DOMAIN m.active : isFinished(m.active[p])}
    IN [m EXCEPT !.active = [p \in DOMAIN @ \ completed_threads |-> @[p]]]

(***************************************************************************)
(* Init: the state DownloadManager.__init__ leaves, in an empty download   *)
(* directory, and the state Cache.__init__ leaves, over an empty cache     *)
(* directory.                                                              *)
(***************************************************************************)
Init ==
    /\ active_downloads = <<>>
    /\ download_queue = <<>>
    /\ max_concurrent_downloads = DefaultMaxConcurrent
    /\ events = <<>>
    /\ files = {}
    /\ startsOnly = 0
    /\ _memory_cache = <<>>
    /\ cache_files = <<>>
    /\ now = 0
    /\ last = [op |-> "__init__", key |-> <<>>, ret |-> None, found |-> FALSE,
                count |-> 0, calls |-> 0, raised |-> FALSE, removed |-> {}]
    /\ written = <<>>
    /\ task = NoTask
    /\ taskLog = NoLog
    /\ active_requests = <<>>
    /\ loading_labels = {}
    /\ image_files = <<>>
    /\ network = {}
    /\ replies_created = 0
    /\ last_image = NoCall

\* the paths the active set and the queue hold tasks for
ActivePaths == DOMAIN active_downloads
QueuedPaths == {PathOf(download_queue[i][1]) : i \in DOMAIN download_queue}

\* the coordinator's fields after a method ran on the UI thread
Apply(m) ==
    /\ ~m.overflow
    /\ active_downloads' = m.active
    /\ download_queue' = m.queue
    /\ max_concurrent_downloads' = m.max
    /\ UNCHANGED <<cacheVars, loaderVars, imageVars>>

(***************************************************************************)
(* Calls from the UI, each run to completion on the UI thread.             *)
(***************************************************************************)
StartDownload(item_data) ==
    /\ Apply(start_download(Manager, item_data, DownloadDir))
    /\ startsOnly' =
           IF /\ startsOnly >= 0
              /\ Truthy(_get_download_url(item_data))
              /\ PathOf(item_data) \notin ActivePaths \cup QueuedPaths
           THEN startsOnly + 1
           ELSE -1
    /\ UNCHANGED <<events, files>>

CancelDownload(file_path) ==
    /\ Apply(cancel_download(Manager, file_path))
    /\ startsOnly' = -1
    /\ UNCHANGED <<events, files>>

CancelAllDownloads ==
    /\ Apply(cancel_all_downloads(Manager))
    /\ startsOnly' = -1
    /\ UNCHANGED <<events, files>>

SetMaxConcurrentDownloads(max_downloads) ==
    /\ Apply(set_max_concurrent_downloads(Manager, max_downloads))
    /\ startsOnly' = IF startsOnly = 0 THEN 0 ELSE -1
    /\ UNCHANGED <<events, files>>

ClearCompletedDownloads ==
    /\ Apply(clear_completed_downloads(Manager))
    /\ startsOnly' = -1
    /\ UNCHANGED <<events, files>>

(***************************************************************************)
(* Delivery of the oldest queued worker signal to the slot connected in    *)
(* _start_download_thread. thread.wait() in the two terminal handlers      *)
(* returns once the thread now registered under file_path has left run().  *)
(***************************************************************************)
Waited(file_path) ==
    file_path \in DOMAIN active_downloads => isFinished(active_downloads[file_path])

DeliverProgress ==
    /\ events /= <<>>
    /\ Head(events).type = "progress"
    /\ Apply(Emit(Manager, "download_progress", Head(events).path))
    /\ events' = Tail(events)
    /\ startsOnly' = -1
    /\ UNCHANGED files

DeliverFinished ==
    /\ events /= <<>>
    /\ Head(events).type = "finished"
    /\ Waited(Head(events).path)
    /\ Apply(_on_download_finished(Manager, Head(events).path, Head(events).path))
    /\ events' = Tail(events)
    /\ startsOnly' = -1
    /\ UNCHANGED files

DeliverError ==
    /\ events /= <<>>
    /\ Head(events).type = "error"
    /\ Waited(Head(events).path)
    /\ Apply(_on_download_error(Manager, Head(events).path, "error"))
    /\ events' = Tail(events)
    /\ startsOnly' = -1
    /\ UNCHANGED files

(***************************************************************************)
(* DownloadThread.run, one step at a time. Positions of run():             *)
(*   start     before requests.get and open(file_path, 'wb')               *)
(*   loop      waiting for the next chunk of iter_content                  *)
(*   write     is_cancelled was read False for the chunk in hand           *)
(*   emit_fin  is_cancelled was read False after the loop                  *)
(*   emit_err  is_cancelled was read False in an except clause             *)
(*   done      run() has returned                                          *)
(***************************************************************************)
\* a queued emission: the file_path its slot was connected with, and for
\* progress_updated the downloaded size it carries (0 for the other signals)
Signal(p, type, downloaded) ==
    [type |-> type, path |-> p, downloaded |-> downloaded]

\* signal.emit(...) of one of DownloadThread's signals: queued for the UI thread
Post(signal) ==
    /\ Len(events) < MaxEvents
    /\ events' = Append(events, signal)

\* where run() goes when it finds is_cancelled False (goOn) or True
AfterCheck(thread, goOn) == IF thread.is_cancelled THEN "done" ELSE goOn

\* a worker's step leaves the coordinator's other fields alone
WorkerStep(p, pc) ==
    /\ p \in DOMAIN active_downloads
    /\ active_downloads[p].pc = pc
    /\ UNCHANGED <<download_queue, max_concurrent_downloads, startsOnly>>
    /\ UNCHANGED <<cacheVars, loaderVars, imageVars>>

\* requests.get answered and open(file_path, 'wb') created the file
ThreadOpen(p) ==
    /\ WorkerStep(p, "start")
    /\ active_downloads' = [active_downloads EXCEPT ![p].pc = "loop"]
    /\ files' = files \cup {p}
    /\ UNCHANGED events

\* requests.get, raise_for_status, makedirs or open raised
ThreadRequestFails(p) ==
    /\ WorkerStep(p, "start")
    /\ active_downloads' =
           [active_downloads EXCEPT ![p].pc = AfterCheck(active_downloads[p], "emit_err")]
    /\ UNCHANGED <<events, files>>

\* iter_content yielded a chunk: "if self.is_cancelled: ... os.remove ... return"
ThreadChunk(p) ==
    /\ WorkerStep(p, "loop")
    /\ active_downloads[p].downloaded_size < MaxChunks
    /\ active_downloads' =
           [active_downloads EXCEPT ![p].pc = AfterCheck(active_downloads[p], "write")]
    /\ files' = IF active_downloads[p].is_cancelled THEN files \ {p} ELSE files
    /\ UNCHANGED events

\* iter_content is exhausted: the with block closes the file,
\* then "if not self.is_cancelled"
ThreadBodyEnds(p) ==
    /\ WorkerStep(p, "loop")
    /\ active_downloads' =
           [active_downloads EXCEPT ![p].pc = AfterCheck(active_downloads[p], "emit_fin")]
    /\ UNCHANGED <<events, files>>

\* iter_content raised
ThreadStreamFails(p) ==
    /\ WorkerStep(p, "loop")
    /\ active_downloads' =
           [active_downloads EXCEPT ![p].pc = AfterCheck(active_downloads[p], "emit_err")]
    /\ UNCHANGED <<events, files>>

\* f.write(chunk); downloaded_size += len(chunk); progress_updated.emit
ThreadWrite(p) ==
    /\ WorkerStep(p, "write")
    /\ active_downloads' = [active_downloads EXCEPT ![p] = WriteChunk(@, 1)]
    /\ Post(Signal(p, "progress", active_downloads'[p].downloaded_size))
    /\ UNCHANGED files

\* f.write raised OSError
ThreadWriteFails(p) ==
    /\ WorkerStep(p, "write")
    /\ active_downloads' =
           [active_downloads EXCEPT ![p].pc = AfterCheck(active_downloads[p], "emit_err")]
    /\ UNCHANGED <<events, files>>

\* self.download_finished.emit(self.file_path)
ThreadEmitFinished(p) ==
    /\ WorkerStep(p, "emit_fin")
    /\ active_downloads' =
           [active_downloads EXCEPT ![p].pc = "done", ![p].terminal = "finished"]
    /\ Post(Signal(p, "finished", 0))
    /\ UNCHANGED files

\* self.download_error.emit(...)
ThreadEmitError(p) ==
    /\ WorkerStep(p, "emit_err")
    /\ active_downloads' =
           [active_downloads EXCEPT ![p].pc = "done", ![p].terminal = "error"]
    /\ Post(Signal(p, "error", 0))
    /\ UNCHANGED files

Next ==
    \/ \E item_data \in ItemData : StartDownload(item_data)
    \/ \E file_path \in Paths : CancelDownload(file_path)
    \/ CancelAllDownloads
    \/ \E max_downloads \in 0..MaxLimit : SetMaxConcurrentDownloads(max_downloads)
    \/ ClearCompletedDownloads
    \/ DeliverProgress
    \/ DeliverFinished
    \/ DeliverError
    \/ \E p \in Paths : ThreadOpen(p)
    \/ \E p \in Paths : ThreadRequestFails(p)
    \/ \E p \in Paths : ThreadChunk(p)
    \/ \E p \in Paths : ThreadBodyEnds(p)
    \/ \E p \in Paths : ThreadStreamFails(p)
    \/ \E p \in Paths : ThreadWrite(p)
    \/ \E p \in Paths : ThreadWriteFails(p)
    \/ \E p \in Paths : ThreadEmitFinished(p)
    \/ \E p \in Paths : ThreadEmitError(p)

Spec == Init /\ [][Next]_vars

(***************************************************************************)
(* A burst of calls from the UI before any worker has run: start_download  *)
(* calls over the larger item set, and changes of the limit.               *)
(***************************************************************************)
BurstNext ==
    \/ \E item_data \in BurstItems : StartDownload(item_data)
    \/ \E max_downloads \in 0..MaxLimit : SetMaxConcurrentDownloads(max_downloads)

BurstSpec == Init /\ [][BurstNext]_vars

(***************************************************************************)
(* One transfer followed chunk by chunk: the chunks iter_content yields    *)
(* differ in length, and an empty one is skipped by "if chunk:".           *)
(***************************************************************************)
\* the most bytes a response body delivers
MaxBytes == 3
\* the longest chunk
MaxChunkLen == 2

\* iter_content yielded a chunk: "if self.is_cancelled: ... os.remove ... return"
TransferChunk(p) ==
    /\ WorkerStep(p, "loop")
    /\ active_downloads[p].downloaded_size < MaxBytes
    /\ active_downloads' =
           [active_downloads EXCEPT ![p].pc = AfterCheck(active_downloads[p], "write")]
    /\ files' = IF active_downloads[p].is_cancelled THEN files \ {p} ELSE files
    /\ UNCHANGED events

\* "if chunk:" with its body, for a chunk of len bytes
TransferWrite(p, len) ==
    /\ WorkerStep(p, "write")
    /\ IF len > 0
       THEN /\ active_downloads' = [active_downloads EXCEPT ![p] = WriteChunk(@, len)]
            /\ Post(Signal(p, "progress", active_downloads'[p].downloaded_size))
       ELSE /\ active_downloads' = [active_downloads EXCEPT ![p].pc = "loop"]
            /\ UNCHANGED events
    /\ UNCHANGED files

TransferNext ==
    \/ \E item_data \in {ItemA, ItemB} : StartDownload(item_data)
    \/ \E file_path \in Paths : CancelDownload(file_path)
    \/ DeliverProgress
    \/ DeliverFinished
    \/ DeliverError
    \/ \E p \in Paths : ThreadOpen(p)
    \/ \E p \in Paths : TransferChunk(p)
    \/ \E p \in Paths : ThreadBodyEnds(p)
    \/ \E p \in Paths : ThreadStreamFails(p)
    \/ \E p \in Paths, len \in 0..MaxChunkLen : TransferWrite(p, len)
    \/ \E p \in Paths : ThreadEmitFinished(p)
    \/ \E p \in Paths : ThreadEmitError(p)

TransferSpec == Init /\ [][TransferNext]_vars

(***************************************************************************)
(* The TTL cache (src/cache.py). Keys, stored values and file names are    *)
(* strings or None; time is counted in whole seconds.                      *)
(***************************************************************************)
\* str.replace(old, new): every occurrence, left to right, without overlap
RECURSIVE Replace(_, _, _)
Replace(s, old, new) ==
    IF Len(s) < Len(old) THEN s
    ELSE IF SubSeq(s, 1, Len(old)) = old
    THEN new \o Replace(SubSeq(s, Len(old) + 1, Len(s)), old, new)
    ELSE <<Head(s)>> \o Replace(Tail(s), old, new)

\* str.endswith(suffix)
EndsWith(s, suffix) ==
    /\ Len(s) >= Len(suffix)
    /\ SubSeq(s, Len(s) - Len(suffix) + 1, Len(s)) = suffix

\* '.cache'
CacheSuffix == <<".", "c", "a", "c", "h", "e">>

\* the keys the callers use: two that differ in one character
KeyUnder == <<"a", "_", "b">>
KeySlash == <<"a", "/", "b">>
Keys == {KeyUnder, KeySlash}

\* the values stored: a value and None
Values == {<<"x">>, None}

\* the ttl argument of set and get_or_set: None (<<>>) or a number of seconds
TtlArgs == {<<>>} \cup {<<t>> : t \in 0..MaxTtl}

\* what a factory_func does when called: returns a value or raises
Factories ==
    {[raises |-> FALSE, value |-> v] : v \in Values}
        \cup {[raises |-> TRUE, value |-> None]}

\* the content of a record file that pickle.load cannot read
Corrupt == [corrupt |-> TRUE]

\* an entry that expired already at the very age of its ttl
ExpiredInclusive(entry, t) == t - entry.timestamp >= entry.ttl

\* "time.time() - timestamp > ttl"
Expired(entry, t) == t - entry.timestamp > entry.ttl

_get_cache_filename(key) ==
    Replace(Replace(Replace(key, <<"/">>, <<"_">>), <<"\\">>, <<"_">>),
            <<":">>, <<"_">>) \o CacheSuffix

_get_key_from_filename(filename) ==
    Replace(Replace(filename, CacheSuffix, <<>>), <<"_">>, <<"/">>)

\* the cache's fields as one value, for the methods below: ret is what the
\* method returns, calls the number of times it called factory_func, raised
\* whether it raised, and removed the keys whose entries it deleted
Cache ==
    [mem |-> _memory_cache, disk |-> cache_files,
     ret |-> None, calls |-> 0, raised |-> FALSE, removed |-> {}]

_save_to_disk(c, key, data, timestamp, ttl) ==
    [c EXCEPT !.disk = (_get_cache_filename(key) :>
                           [data |-> data, timestamp |-> timestamp, ttl |-> ttl]) @@ @]

\* a record file left where it is
RemoveFromDiskSkipped(c, key) == c

_remove_from_disk(c, key) ==
    IF _get_cache_filename(key) \in DOMAIN c.disk
    THEN [c EXCEPT !.disk = Del(@, _get_cache_filename(key))]
    ELSE c

\* "del self._memory_cache[key]; self._remove_from_disk(key)"
Evict(c, key) ==
    _remove_from_disk([c EXCEPT !.mem = Del(@, key), !.removed = @ \cup {key}], key)

\* a read that never looks at the entry's age
GetIgnoringTtl(c, key, t) ==
    IF key \notin DOMAIN c.mem THEN [c EXCEPT !.ret = None]
    ELSE [c EXCEPT !.ret = c.mem[key].data]

Cache_get(c, key, t) ==
    IF key \notin DOMAIN c.mem THEN [c EXCEPT !.ret = None]
    ELSE IF Expired(c.mem[key], t) THEN [Evict(c, key) EXCEPT !.ret = None]
    ELSE [c EXCEPT !.ret = c.mem[key].data]

\* "if ttl is None: ttl = self.default_ttl"
TtlOrDefault(ttl) == IF ttl = <<>> THEN CacheDefaultTtl ELSE ttl[1]

Cache_set(c, key, data, ttl, t) ==
    LET entry == [data |-> data, timestamp |-> t, ttl |-> TtlOrDefault(ttl)]
        c1 == [c EXCEPT !.mem = (key :> entry) @@ @, !.ret = None]
    IN _save_to_disk(c1, key, data, t, TtlOrDefault(ttl))

\* a failed write whose exception leaves _save_to_disk
SaveToDiskRaises(c, key, truncated) == [c EXCEPT !.raised = TRUE]

\* _save_to_disk when the write fails: the exception is caught and printed;
\* open(filepath, 'wb') either failed and left the directory as it was, or
\* succeeded and pickle.dump failed, which leaves a record file cut short
SaveToDiskFails(c, key, truncated) ==
    IF truncated
    THEN [c EXCEPT !.disk = (_get_cache_filename(key) :> Corrupt) @@ @]
    ELSE c

\* set when the write of the record file fails
SetWriteFails(c, key, data, ttl, t, truncated) ==
    LET entry == [data |-> data, timestamp |-> t, ttl |-> TtlOrDefault(ttl)]
        c1 == [c EXCEPT !.mem = (key :> entry) @@ @, !.ret = None]
    IN SaveToDiskFails(c1, key, truncated)

Cache_delete(c, key) ==
    IF key \in DOMAIN c.mem
    THEN [Evict(c, key) EXCEPT !.ret = "True"]
    ELSE [c EXCEPT !.ret = "False"]

\* a clear that leaves the record files
ClearMemoryOnly(c) == [c EXCEPT !.mem = <<>>, !.removed = DOMAIN c.mem]

Cache_clear(c) ==
    [c EXCEPT !.mem = <<>>,
              !.removed = DOMAIN c.mem,
              !.disk = [f \in {g \in DOMAIN @ : ~EndsWith(g, CacheSuffix)} |-> @[f]]]

Cache_get_stats(c, t) ==
    LET total_items == Cardinality(DOMAIN c.mem)
        expired_items == Cardinality({k \in DOMAIN c.mem : Expired(c.mem[k], t)})
    IN [total_items |-> total_items,
        active_items |-> total_items - expired_items,
        expired_items |-> expired_items]

\* the two loops of cleanup_expired and of invalidate_pattern: the entries of
\* the collected keys are deleted one after another (the keys are distinct,
\* and the result does not depend on their order)
RECURSIVE EvictAll(_, _)
EvictAll(c, keys) ==
    IF keys = {} THEN c
    ELSE LET key == CHOOSE k \in keys : TRUE
         IN EvictAll(Evict(c, key), keys \ {key})

\* a sweep that deletes the live entries too
CleanupRemovingAll(c, t) ==
    [EvictAll(c, DOMAIN c.mem) EXCEPT !.ret = Cardinality(DOMAIN c.mem)]

Cache_cleanup_expired(c, t) ==
    LET expired_keys == {k \in DOMAIN c.mem : Expired(c.mem[k], t)}
    IN [EvictAll(c, expired_keys) EXCEPT !.ret = Cardinality(expired_keys)]

\* a match at the start of the key only
StartsWithPattern(key, pattern) ==
    /\ Len(pattern) <= Len(key)
    /\ SubSeq(key, 1, Len(pattern)) = pattern

\* "pattern in key"
Contains(key, pattern) ==
    \E i \in 1..(Len(key) + 1) :
        /\ i + Len(pattern) - 1 <= Len(key)
        /\ SubSeq(key, i, i + Len(pattern) - 1) = pattern

Cache_invalidate_pattern(c, pattern) ==
    LET keys_to_delete == {k \in DOMAIN c.mem : Contains(k, pattern)}
    IN [EvictAll(c, keys_to_delete) EXCEPT !.ret = Cardinality(keys_to_delete)]

Cache_get_or_set(c, key, factory_func, ttl, t) ==
    LET got == Cache_get(c, key, t)
    IN IF got.ret /= None THEN got
       ELSE IF factory_func.raises
       THEN [got EXCEPT !.calls = 1, !.raised = TRUE]
       ELSE [Cache_set(got, key, factory_func.value, ttl, t)
                EXCEPT !.ret = factory_func.value, !.calls = 1]

\* a record file that _load_from_disk keeps and loads
Loadable(disk, filename, t) ==
    /\ EndsWith(filename, CacheSuffix)
    /\ disk[filename] /= Corrupt
    /\ ~Expired(disk[filename], t)

\* Cache.__init__ over the directory: the live records go into memory under
\* the key read back from their file name, the expired and the unreadable
\* record files are removed (two file names of the model never give one key,
\* so the order of os.listdir does not matter)
_load_from_disk(c, t) ==
    LET kept == {f \in DOMAIN c.disk : Loadable(c.disk, f, t)}
        dropped == {f \in DOMAIN c.disk : EndsWith(f, CacheSuffix)} \ kept
        keys == {_get_key_from_filename(f) : f \in kept}
        fileOf(k) == CHOOSE f \in kept : _get_key_from_filename(f) = k
    IN [c EXCEPT !.mem = [k \in keys |-> c.disk[fileOf(k)]],
                 !.disk = [f \in DOMAIN @ \ dropped |-> @[f]]]

(***************************************************************************)
(* Calls on the cache, each run to completion under the cache's lock, and  *)
(* what happens around it: time passing, a record file damaged, the        *)
(* process ended and a new Cache built over the same directory.            *)
(***************************************************************************)
\* the completed writes after a method ran: set, and get_or_set when it
\* called set, record the entry they stored; delete and invalidate_pattern
\* take out the keys they deleted and clear takes out all; a new process
\* starts with none
WrittenAfter(c, op, key) ==
    IF op \in {"clear", "__init__"} THEN <<>>
    ELSE IF op = "set" \/ (op = "get_or_set" /\ c.calls = 1 /\ ~c.raised)
    THEN (key :> c.mem[key]) @@ written
    ELSE IF op \in {"delete", "invalidate_pattern"}
    THEN [k \in DOMAIN written \ c.removed |-> written[k]]
    ELSE written

\* the cache's fields after a method ran, and what it returned: a stored
\* value or None (ret), a bool (found), or a number of keys (count)
ApplyCache(c, op, key) ==
    /\ _memory_cache' = c.mem
    /\ cache_files' = c.disk
    /\ last' = [op |-> op, key |-> key,
                 ret |-> IF op \in {"get", "get_or_set"} THEN c.ret ELSE None,
                 found |-> IF op = "delete" THEN c.ret = "True" ELSE FALSE,
                 count |-> IF op \in {"cleanup_expired", "invalidate_pattern"}
                           THEN c.ret ELSE 0,
                 calls |-> c.calls, raised |-> c.raised, removed |-> c.removed]
    /\ written' = WrittenAfter(c, op, key)

CacheSet(key, data, ttl) ==
    /\ ApplyCache(Cache_set(Cache, key, data, ttl, now), "set", key)
    /\ UNCHANGED <<now, dmVars, imageVars, loaderVars>>

CacheGet(key) ==
    /\ ApplyCache(Cache_get(Cache, key, now), "get", key)
    /\ UNCHANGED <<now, dmVars, imageVars, loaderVars>>

CacheDelete(key) ==
    /\ ApplyCache(Cache_delete(Cache, key), "delete", key)
    /\ UNCHANGED <<now, dmVars, imageVars, loaderVars>>

CacheClear ==
    /\ ApplyCache(Cache_clear(Cache), "clear", <<>>)
    /\ UNCHANGED <<now, dmVars, imageVars, loaderVars>>

\* called by the callers and, every 300 seconds, by the cleanup thread
CacheCleanupExpired ==
    /\ ApplyCache(Cache_cleanup_expired(Cache, now), "cleanup_expired", <<>>)
    /\ UNCHANGED <<now, dmVars, imageVars, loaderVars>>

CacheInvalidatePattern(pattern) ==
    /\ ApplyCache(Cache_invalidate_pattern(Cache, pattern), "invalidate_pattern", pattern)
    /\ UNCHANGED <<now, dmVars, imageVars, loaderVars>>

CacheGetOrSet(key, factory_func, ttl) ==
    /\ ApplyCache(Cache_get_or_set(Cache, key, factory_func, ttl, now), "get_or_set", key)
    /\ UNCHANGED <<now, dmVars, imageVars, loaderVars>>

CacheRestart ==
    /\ ApplyCache(_load_from_disk([Cache EXCEPT !.mem = <<>>], now), "__init__", <<>>)
    /\ UNCHANGED <<now, dmVars, imageVars, loaderVars>>

\* a record file is damaged (a write cut short)
DamageRecord(filename) ==
    /\ filename \in DOMAIN cache_files
    /\ cache_files[filename] /= Corrupt
    /\ cache_files' = [cache_files EXCEPT ![filename] = Corrupt]
    /\ UNCHANGED <<_memory_cache, now, last, written, dmVars, imageVars, loaderVars>>

\* a second passes
Tick ==
    /\ now < MaxTime
    /\ now' = now + 1
    /\ UNCHANGED <<_memory_cache, cache_files, last, written, dmVars, imageVars, loaderVars>>

CacheNext ==
    \/ \E key \in Keys, data \in Values, ttl \in TtlArgs : CacheSet(key, data, ttl)
    \/ \E key \in Keys : CacheGet(key)
    \/ \E key \in Keys : CacheDelete(key)
    \/ CacheClear
    \/ CacheCleanupExpired
    \/ \E pattern \in {<<"a">>, <<"_">>} : CacheInvalidatePattern(pattern)
    \/ \E key \in Keys, factory_func \in Factories, ttl \in TtlArgs :
           CacheGetOrSet(key, factory_func, ttl)
    \/ CacheRestart
    \/ \E filename \in {_get_cache_filename(k) : k \in Keys} : DamageRecord(filename)
    \/ Tick

CacheSpec == Init /\ [][CacheNext]_vars

\* one cache instance used through set, get, delete, cleanup_expired,
\* invalidate_pattern and clear only, over a directory that nothing else
\* touches
CachePlainNext ==
    \/ \E key \in Keys, data \in Values, ttl \in TtlArgs : CacheSet(key, data, ttl)
    \/ \E key \in Keys : CacheGet(key)
    \/ \E key \in Keys : CacheDelete(key)
    \/ CacheClear
    \/ CacheCleanupExpired
    \/ \E pattern \in {<<"a">>, <<"_">>} : CacheInvalidatePattern(pattern)
    \/ Tick

CachePlainSpec == Init /\ [][CachePlainNext]_vars

\* a set during which the write of the record file fails
CacheSetWriteFails(key, data, ttl, truncated) ==
    /\ ApplyCache(SetWriteFails(Cache, key, data, ttl, now, truncated), "set", key)
    /\ UNCHANGED <<now, dmVars, imageVars, loaderVars>>

\* the calls on the cache over a directory whose writes can fail
CacheIoNext ==
    \/ CacheNext
    \/ \E key \in Keys, data \in Values, ttl \in TtlArgs, truncated \in BOOLEAN :
           CacheSetWriteFails(key, data, ttl, truncated)

CacheIoSpec == Init /\ [][CacheIoNext]_vars

(***************************************************************************)
(* The loader threads (src/worker.py) and the catalog they fetch from      *)
(* (src/steam_api.py).  A loader thread reads its is_cancelled flag        *)
(* between its work units; cancel() is called from the UI thread and can   *)
(* come between any two steps of run().                                    *)
(***************************************************************************)
\* self.popular_games, in the order of the source
popular_games ==
    <<[appid |-> 730,
       name |-> <<"C", "o", "u", "n", "t", "e", "r", "-", "S", "t", "r", "i",
                 "k", "e", ":", " ", "G", "l", "o", "b", "a", "l", " ", "O",
                 "f", "f", "e", "n", "s", "i", "v", "e">>],
      [appid |-> 570,
       name |-> <<"D", "o", "t", "a", " ", "2">>],
      [appid |-> 440,
       name |-> <<"T", "e", "a", "m", " ", "F", "o", "r", "t", "r", "e", "s",
                 "s", " ", "2">>],
      [appid |-> 4000,
       name |-> <<"G", "a", "r", "r", "y", "'", "s", " ", "M", "o", "d">>],
      [appid |-> 252490,
       name |-> <<"R", "u", "s", "t">>],
      [appid |-> 304930,
       name |-> <<"U", "n", "t", "u", "r", "n", "e", "d">>],
      [appid |-> 431960,
       name |-> <<"W", "a", "l", "l", "p", "a", "p", "e", "r", " ", "E", "n",
                 "g", "i", "n", "e">>],
      [appid |-> 294100,
       name |-> <<"R", "i", "m", "W", "o", "r", "l", "d">>],
      [appid |-> 255710,
       name |-> <<"C", "i", "t", "i", "e", "s", ":", " ", "S", "k", "y", "l",
                 "i", "n", "e", "s">>],
      [appid |-> 108600,
       name |-> <<"P", "r", "o", "j", "e", "c", "t", " ", "Z", "o", "m", "b",
                 "o", "i", "d">>],
      [appid |-> 211820,
       name |-> <<"S", "t", "a", "r", "b", "o", "u", "n", "d">>],
      [appid |-> 105600,
       name |-> <<"T", "e", "r", "r", "a", "r", "i", "a">>],
      [appid |-> 72850,
       name |-> <<"T", "h", "e", " ", "E", "l", "d", "e", "r", " ", "S", "c",
                 "r", "o", "l", "l", "s", " ", "V", ":", " ", "S", "k", "y",
                 "r", "i", "m">>],
      [appid |-> 489830,
       name |-> <<"T", "h", "e", " ", "E", "l", "d", "e", "r", " ", "S", "c",
                 "r", "o", "l", "l", "s", " ", "V", ":", " ", "S", "k", "y",
                 "r", "i", "m", " ", "S", "p", "e", "c", "i", "a", "l", " ",
                 "E", "d", "i", "t", "i", "o", "n">>],
      [appid |-> 1085660,
       name |-> <<"D", "e", "s", "t", "i", "n", "y", " ", "2">>],
      [appid |-> 271590,
       name |-> <<"G", "r", "a", "n", "d", " ", "T", "h", "e", "f", "t", " ",
                 "A", "u", "t", "o", " ", "V">>],
      [appid |-> 346110,
       name |-> <<"A", "R", "K", ":", " ", "S", "u", "r", "v", "i", "v", "a",
                 "l", " ", "E", "v", "o", "l", "v", "e", "d">>],
      [appid |-> 322330,
       name |-> <<"D", "o", "n", "'", "t", " ", "S", "t", "a", "r", "v", "e",
                 " ", "T", "o", "g", "e", "t", "h", "e", "r">>],
      [appid |-> 230410,
       name |-> <<"W", "a", "r", "f", "r", "a", "m", "e">>],
      [appid |-> 582010,
       name |-> <<"M", "o", "n", "s", "t", "e", "r", " ", "H", "u", "n", "t",
                 "e", "r", ":", " ", "W", "o", "r", "l", "d">>],
      [appid |-> 1172470,
       name |-> <<"A", "p", "e", "x", " ", "L", "e", "g", "e", "n", "d", "s">>],
      [appid |-> 359550,
       name |-> <<"T", "o", "m", " ", "C", "l", "a", "n", "c", "y", "'", "s",
                 " ", "R", "a", "i", "n", "b", "o", "w", " ", "S", "i", "x",
                 " ", "S", "i", "e", "g", "e">>],
      [appid |-> 292030,
       name |-> <<"T", "h", "e", " ", "W", "i", "t", "c", "h", "e", "r", " ",
                 "3", ":", " ", "W", "i", "l", "d", " ", "H", "u", "n", "t">>],
      [appid |-> 1174180,
       name |-> <<"R", "e", "d", " ", "D", "e", "a", "d", " ", "R", "e", "d",
                 "e", "m", "p", "t", "i", "o", "n", " ", "2">>],
      [appid |-> 413150,
       name |-> <<"S", "t", "a", "r", "d", "e", "w", " ", "V", "a", "l", "l",
                 "e", "y">>],
      [appid |-> 367520,
       name |-> <<"H", "o", "l", "l", "o", "w", " ", "K", "n", "i", "g", "h",
                 "t">>],
      [appid |-> 381210,
       name |-> <<"D", "e", "a", "d", " ", "b", "y", " ", "D", "a", "y", "l",
                 "i", "g", "h", "t">>],
      [appid |-> 236430,
       name |-> <<"A", " ", "H", "a", "t", " ", "i", "n", " ", "T", "i", "m",
                 "e">>],
      [appid |-> 418370,
       name |-> <<"S", "u", "b", "n", "a", "u", "t", "i", "c", "a">>],
      [appid |-> 774281,
       name |-> <<"S", "u", "b", "n", "a", "u", "t", "i", "c", "a", ":", " ",
                 "B", "e", "l", "o", "w", " ", "Z", "e", "r", "o">>],
      [appid |-> 892970,
       name |-> <<"V", "a", "l", "h", "e", "i", "m">>],
      [appid |-> 945360,
       name |-> <<"A", "m", "o", "n", "g", " ", "U", "s">>],
      [appid |-> 1203220,
       name |-> <<"N", "A", "R", "A", "K", "A", ":", " ", "B", "L", "A", "D",
                 "E", "P", "O", "I", "N", "T">>],
      [appid |-> 1172620,
       name |-> <<"S", "e", "a", " ", "o", "f", " ", "T", "h", "i", "e", "v",
                 "e", "s">>],
      [appid |-> 1091500,
       name |-> <<"C", "y", "b", "e", "r", "p", "u", "n", "k", " ", "2", "0",
                 "7", "7">>],
      [appid |-> 1245620,
       name |-> <<"E", "L", "D", "E", "N", " ", "R", "I", "N", "G">>],
      [appid |-> 1086940,
       name |-> <<"B", "a", "l", "d", "u", "r", "'", "s", " ", "G", "a", "t",
                 "e", " ", "3">>],
      [appid |-> 1517290,
       name |-> <<"B", "a", "t", "t", "l", "e", "f", "i", "e", "l", "d", " ",
                 "2", "0", "4", "2">>],
      [appid |-> 1599340,
       name |-> <<"C", "a", "l", "l", " ", "o", "f", " ", "D", "u", "t", "y",
                 ":", " ", "M", "o", "d", "e", "r", "n", " ", "W", "a", "r",
                 "f", "a", "r", "e", " ", "I", "I">>],
      [appid |-> 1938090,
       name |-> <<"C", "a", "l", "l", " ", "o", "f", " ", "D", "u", "t", "y",
                 ":", " ", "M", "o", "d", "e", "r", "n", " ", "W", "a", "r",
                 "f", "a", "r", "e", " ", "I", "I", "I">>],
      [appid |-> 1966720,
       name |-> <<"H", "o", "g", "w", "a", "r", "t", "s", " ", "L", "e", "g",
                 "a", "c", "y">>],
      [appid |-> 1817070,
       name |-> <<"M", "a", "r", "v", "e", "l", "'", "s", " ", "S", "p", "i",
                 "d", "e", "r", "-", "M", "a", "n", " ", "R", "e", "m", "a",
                 "s", "t", "e", "r", "e", "d">>],
      [appid |-> 1888930,
       name |-> <<"M", "a", "r", "v", "e", "l", "'", "s", " ", "S", "p", "i",
                 "d", "e", "r", "-", "M", "a", "n", ":", " ", "M", "i", "l",
                 "e", "s", " ", "M", "o", "r", "a", "l", "e", "s">>],
      [appid |-> 1623730,
       name |-> <<"P", "a", "l", "w", "o", "r", "l", "d">>],
      [appid |-> 1868140,
       name |-> <<"D", "A", "V", "E", " ", "T", "H", "E", " ", "D", "I", "V",
                 "E", "R">>],
      [appid |-> 1449850,
       name |-> <<"Y", "u", "-", "G", "i", "-", "O", "h", "!", " ", "M", "a",
                 "s", "t", "e", "r", " ", "D", "u", "e", "l">>],
      [appid |-> 1593500,
       name |-> <<"G", "o", "d", " ", "o", "f", " ", "W", "a", "r">>],
      [appid |-> 1817190,
       name |-> <<"M", "a", "r", "v", "e", "l", "'", "s", " ", "G", "u", "a",
                 "r", "d", "i", "a", "n", "s", " ", "o", "f", " ", "t", "h",
                 "e", " ", "G", "a", "l", "a", "x", "y">>],
      [appid |-> 1237970,
       name |-> <<"T", "i", "t", "a", "n", "f", "a", "l", "l", " ", "2">>],
      [appid |-> 1174370,
       name |-> <<"P", "h", "a", "s", "m", "o", "p", "h", "o", "b", "i", "a">>]>>

\* the first page the game loader asks for: get_popular_games(limit=50)
PageLimit == 50
\* the whole catalog the game loader asks for: get_popular_games(limit=200)
AllLimit == 200
\* search_games(self.query, limit=20)
SearchLimit == 20
\* "if len(self.query.strip()) < 2"
MinQueryLen == 2
\* ttl of the first page of games, of the whole catalog, of a workshop page
\* and of a search result, in seconds
GamesTtl == 3600
AllGamesTtl == 7200
WorkshopTtl == 1800
SearchTtl == 900

\* "return self.popular_games[:limit]"
get_popular_games(limit) == Prefix(popular_games, limit)

UpperCase ==
    <<"A", "B", "C", "D", "E", "F", "G", "H", "I", "J", "K", "L", "M",
      "N", "O", "P", "Q", "R", "S", "T", "U", "V", "W", "X", "Y", "Z">>
LowerCase ==
    <<"a", "b", "c", "d", "e", "f", "g", "h", "i", "j", "k", "l", "m",
      "n", "o", "p", "q", "r", "s", "t", "u", "v", "w", "x", "y", "z">>

\* str.lower()
LowerChar(ch) ==
    IF \E n \in DOMAIN UpperCase : UpperCase[n] = ch
    THEN LowerCase[CHOOSE n \in DOMAIN UpperCase : UpperCase[n] = ch]
    ELSE ch
Lower(s) == [n \in DOMAIN s |-> LowerChar(s[n])]

\* game['name'].lower() of every game of the catalog
LowerNames == [n \in DOMAIN popular_games |-> Lower(popular_games[n].name)]

\* str.strip(): leading and trailing whitespace removed
RECURSIVE LStrip(_)
LStrip(s) == IF s /= <<>> /\ s[1] = " " THEN LStrip(Tail(s)) ELSE s
Strip(s) == LStrip(RStrip(s))

\* a search that tells upper case from lower case
SearchCaseSensitive(query, limit) ==
    Prefix(SelectSeq(popular_games, LAMBDA game : Contains(game.name, query)), limit)

\* the loop of search_games from the n-th game on: a game whose lower-cased
\* name contains query_lower is appended, and the loop ends at limit results
RECURSIVE SearchFrom(_, _, _, _)
SearchFrom(n, query_lower, limit, results) ==
    IF n > Len(popular_games) THEN results
    ELSE IF Contains(LowerNames[n], query_lower)
    THEN IF Len(results) + 1 >= limit THEN Append(results, popular_games[n])
         ELSE SearchFrom(n + 1, query_lower, limit, Append(results, popular_games[n]))
    ELSE SearchFrom(n + 1, query_lower, limit, results)

search_games(query, limit) == SearchFrom(1, Lower(query), limit, <<>>)

\* int(time.time()) when the clock of the model shows 0: a day of 2024
ProcessStart == 20000 * 86400

\* the n-th item (from 0) of _generate_demo_workshop_items at time t.  The
\* id is the text of app_id followed by the text of 1000000 + n, kept as the
\* two numbers; the creator is "Модер_" followed by n + 1.  The other fields
\* of the item (title, description, tags, urls, filename, counters of views
\* and favourites) are texts and numbers fixed by app_id and n that no step
\* of the loader reads; they are left out.
DemoItem(app_id, n, t) ==
    [publishedfileid |-> <<app_id, 1000000 + n>>,
     creator |-> n + 1,
     time_created |-> ProcessStart + t - n * 86400,
     time_updated |-> ProcessStart + t - n * 3600,
     subscriptions |-> 1000 + n * 100,
     file_size |-> 1024 * 1024 * (1 + (n % 50))]

_generate_demo_workshop_items(app_id, count, t) ==
    [n \in 1..count |-> DemoItem(app_id, n - 1, t)]

\* page is not used by the demo generator
get_workshop_items(app_id, page, per_page, t) ==
    _generate_demo_workshop_items(app_id, per_page, t)

\* f"{x / unit:.1f}": the quotient in tenths, rounded
Tenths(x, unit) == (x * 10 + unit \div 2) \div unit

\* the fields _process_workshop_item adds to a copy of the item: the size and
\* the subscriptions as tenths of a unit, the creation date as the day and
\* the minute of the day of time_created
_process_workshop_item(item) ==
    LET file_size == item.file_size
        time_created == item.time_created
        subscriptions == item.subscriptions
    IN [file_size_formatted |->
            IF file_size > 0
            THEN IF file_size >= 1024 * 1024 * 1024
                 THEN [tenths |-> Tenths(file_size, 1024 * 1024 * 1024), unit |-> "GB"]
                 ELSE IF file_size >= 1024 * 1024
                 THEN [tenths |-> Tenths(file_size, 1024 * 1024), unit |-> "MB"]
                 ELSE IF file_size >= 1024
                 THEN [tenths |-> Tenths(file_size, 1024), unit |-> "KB"]
                 ELSE [tenths |-> file_size * 10, unit |-> "B"]
            ELSE [tenths |-> 0, unit |-> "unknown"],
        created_date |-> IF time_created > 0 THEN time_created \div 86400 ELSE 0,
        created_time |-> IF time_created > 0 THEN (time_created % 86400) \div 60 ELSE 0,
        subscriptions_formatted |->
            IF subscriptions >= 1000000
            THEN [tenths |-> Tenths(subscriptions, 1000000), unit |-> "M"]
            ELSE IF subscriptions >= 1000
            THEN [tenths |-> Tenths(subscriptions, 1000), unit |-> "K"]
            ELSE [tenths |-> subscriptions * 10, unit |-> ""]] @@ item

\* str(n) for n >= 0
DigitChars == <<"0", "1", "2", "3", "4", "5", "6", "7", "8", "9">>
RECURSIVE ToStr(_)
ToStr(n) ==
    IF n < 10 THEN <<DigitChars[n + 1]>>
    ELSE ToStr(n \div 10) \o <<DigitChars[(n % 10) + 1]>>

\* "popular_games_list"
GameCacheKey ==
    <<"p", "o", "p", "u", "l", "a", "r", "_", "g", "a", "m", "e", "s", "_",
      "l", "i", "s", "t">>
\* "all_games_list"
AllGamesCacheKey ==
    <<"a", "l", "l", "_", "g", "a", "m", "e", "s", "_", "l", "i", "s", "t">>
\* f"workshop_items_{self.app_id}_{self.page}_{self.per_page}"
WorkshopCacheKey(app_id, page, per_page) ==
    <<"w", "o", "r", "k", "s", "h", "o", "p", "_", "i", "t", "e", "m", "s",
      "_">>
        \o ToStr(app_id) \o <<"_">> \o ToStr(page) \o <<"_">> \o ToStr(per_page)
\* f"search_games_{self.query.lower()}"
SearchCacheKey(query) ==
    <<"s", "e", "a", "r", "c", "h", "_", "g", "a", "m", "e", "s", "_">> \o Lower(query)

\* the largest per_page a workshop loader is created with
MaxPerPage == 2

\* the queries searched for: two that differ in letter case only, one that no
\* name contains, one of two characters of which one is a blank, one of one
\* character, and the empty one
Queries == {<<"D", "o">>, <<"d", "o">>, <<"z", "z">>, <<"a", " ">>, <<"a">>, <<>>}

\* the games whose workshop is loaded
AppIds == {730}

\* the value a run found in the cache, or None: an Optional
Some(value) == [is_none |-> FALSE, value |-> value]
Nothing == [is_none |-> TRUE, value |-> <<>>]

\* truthiness of an Optional[list]: neither None nor empty
TruthyList(opt) == ~opt.is_none /\ opt.value /= <<>>

\* the key the thread reads and writes, the signal that carries its result,
\* and the ttl it stores the result with
CacheKeyOf(t) ==
    CASE t.kind = "game" -> GameCacheKey
      [] t.kind = "workshop" -> WorkshopCacheKey(t.app_id, t.page, t.per_page)
      [] t.kind = "search" -> SearchCacheKey(t.query)

ResultSignal(kind) ==
    CASE kind = "game" -> "games_loaded"
      [] kind = "workshop" -> "workshop_loaded"
      [] kind = "search" -> "search_results"

TtlOf(kind) ==
    CASE kind = "game" -> GamesTtl
      [] kind = "workshop" -> WorkshopTtl
      [] kind = "search" -> SearchTtl

\* signal.emit(value) by the thread; cancelled records whether cancel() had
\* been called on the thread by then
LogSignal(log, sig, value) ==
    [log EXCEPT !.emitted =
        Append(@, [sig |-> sig, value |-> value, cancelled |-> task.is_cancelled])]

\* a short query never searches
IsShortQueryNever(query) == FALSE

\* "len(self.query.strip()) < 2"
IsShortQuery(query) == Len(Strip(query)) < MinQueryLen

\* the item put in front of the list instead of at its end
ProcessNextInFront(t) ==
    [t EXCEPT !.processed_items = <<_process_workshop_item(t.fetched[t.i + 1])>> \o @,
              !.i = @ + 1, !.pc = "loop"]

\* the body of the loop over workshop_items for the item at index i
ProcessNext(t) ==
    [t EXCEPT !.processed_items = Append(@, _process_workshop_item(t.fetched[t.i + 1])),
              !.i = @ + 1, !.pc = "loop"]

\* a loader thread is created and started; its run() has not begun
StartGameLoader ==
    /\ task.pc = "done"
    /\ task' = [NoTask EXCEPT !.kind = "game", !.pc = "run"]
    /\ taskLog' = NoLog
    /\ UNCHANGED <<cacheVars, dmVars, imageVars>>

StartWorkshopLoader(app_id, page, per_page) ==
    /\ task.pc = "done"
    /\ task' = [NoTask EXCEPT !.kind = "workshop", !.pc = "run", !.app_id = app_id,
                              !.page = page, !.per_page = per_page]
    /\ taskLog' = NoLog
    /\ UNCHANGED <<cacheVars, dmVars, imageVars>>

StartSearch(query) ==
    /\ task.pc = "done"
    /\ task' = [NoTask EXCEPT !.kind = "search", !.pc = "run", !.query = query]
    /\ taskLog' = NoLog
    /\ UNCHANGED <<cacheVars, dmVars, imageVars>>

\* cancel(), from the UI thread
TaskCancel ==
    /\ task.kind /= "none"
    /\ ~task.is_cancelled
    /\ task' = [task EXCEPT !.is_cancelled = TRUE]
    /\ UNCHANGED <<taskLog, cacheVars, dmVars, imageVars>>

\* SearchThread.run with a short query: an empty result and return
SearchShortQuery ==
    /\ task.pc = "run"
    /\ task.kind = "search"
    /\ IsShortQuery(task.query)
    /\ taskLog' = LogSignal(taskLog, "search_results", <<>>)
    /\ task' = [task EXCEPT !.pc = "done"]
    /\ UNCHANGED <<cacheVars, dmVars, imageVars>>

\* run() up to "cached = self.cache.get(cache_key)"
RunReadCache ==
    /\ task.pc = "run"
    /\ task.kind = "search" => ~IsShortQuery(task.query)
    /\ LET c == Cache_get(Cache, CacheKeyOf(task), now)
       IN /\ ApplyCache(c, "get", CacheKeyOf(task))
          /\ task' = [task EXCEPT !.pc = "check_cached",
                         !.cached = IF CacheKeyOf(task) \in DOMAIN c.mem
                                    THEN Some(c.ret) ELSE Nothing]
    /\ taskLog' = [(IF task.kind = "search" THEN taskLog
                    ELSE LogSignal(taskLog, "loading_progress", <<>>))
                       EXCEPT !.reads = @ + 1]
    /\ UNCHANGED <<now, dmVars, imageVars>>

\* "if cached and not self.is_cancelled:" and, up to the sleep, what follows
RunCheckCached ==
    /\ task.pc = "check_cached"
    /\ IF TruthyList(task.cached) /\ ~task.is_cancelled
       THEN /\ task' = [task EXCEPT !.pc = "emit_cached"]
            /\ taskLog' = IF task.kind = "search" THEN taskLog
                          ELSE LogSignal(taskLog, "loading_progress", <<>>)
       ELSE /\ task' = [task EXCEPT !.pc = "check_fetch"]
            /\ UNCHANGED taskLog
    /\ UNCHANGED <<cacheVars, dmVars, imageVars>>

\* the cached value is emitted, and run() returns
RunEmitCached ==
    /\ task.pc = "emit_cached"
    /\ taskLog' = LogSignal(taskLog, ResultSignal(task.kind), task.cached.value)
    /\ task' = [task EXCEPT !.pc = "done"]
    /\ UNCHANGED <<cacheVars, dmVars, imageVars>>

\* "if not self.is_cancelled:" before the fetch
RunCheckFetch ==
    /\ task.pc = "check_fetch"
    /\ task' = [task EXCEPT !.pc = IF task.is_cancelled THEN "done" ELSE "fetch"]
    /\ UNCHANGED <<taskLog, cacheVars, dmVars, imageVars>>

\* what the thread fetches from the API
Fetch(t) ==
    CASE t.kind = "game" -> get_popular_games(PageLimit)
      [] t.kind = "workshop" -> get_workshop_items(t.app_id, t.page, t.per_page, now)
      [] t.kind = "search" -> search_games(t.query, SearchLimit)

RunFetch ==
    /\ task.pc = "fetch"
    /\ task' = [task EXCEPT !.fetched = Fetch(task), !.pc = "check_fetched"]
    /\ taskLog' = [(IF task.kind = "search" THEN taskLog
                    ELSE LogSignal(taskLog, "loading_progress", <<>>))
                       EXCEPT !.fetches = @ + 1]
    /\ UNCHANGED <<cacheVars, dmVars, imageVars>>

\* the signal that carries the thread's error
ErrorSignal(kind) == IF kind = "search" THEN "search_error" ELSE "loading_error"

\* the call of the API raised SteamAPIError: run() goes to its except clause
RunFetchFails ==
    /\ task.pc = "fetch"
    /\ task' = [task EXCEPT !.pc = "check_error"]
    /\ taskLog' = [(IF task.kind = "search" THEN taskLog
                    ELSE LogSignal(taskLog, "loading_progress", <<>>))
                       EXCEPT !.fetches = @ + 1, !.failures = @ + 1]
    /\ UNCHANGED <<cacheVars, dmVars, imageVars>>

\* "except SteamAPIError as e: if not self.is_cancelled:"
RunCheckError ==
    /\ task.pc = "check_error"
    /\ task' = [task EXCEPT !.pc = IF task.is_cancelled THEN "done" ELSE "emit_error"]
    /\ UNCHANGED <<taskLog, cacheVars, dmVars, imageVars>>

\* "self.loading_error.emit(...)", "self.search_error.emit(...)"
RunEmitError ==
    /\ task.pc = "emit_error"
    /\ taskLog' = LogSignal(taskLog, ErrorSignal(task.kind), <<>>)
    /\ task' = [task EXCEPT !.pc = "done"]
    /\ UNCHANGED <<cacheVars, dmVars, imageVars>>

\* "if not self.is_cancelled:" after the fetch
RunCheckFetched ==
    /\ task.pc = "check_fetched"
    /\ task' = [task EXCEPT !.pc = IF task.is_cancelled THEN "done"
                                   ELSE IF task.kind = "workshop" THEN "loop"
                                   ELSE "store"]
    /\ taskLog' = IF task.kind = "workshop" /\ ~task.is_cancelled
                  THEN LogSignal(taskLog, "loading_progress", <<>>)
                  ELSE taskLog
    /\ UNCHANGED <<cacheVars, dmVars, imageVars>>

\* the head of the loop over workshop_items: "if self.is_cancelled: break"
WorkshopLoop ==
    /\ task.pc = "loop"
    /\ task' = [task EXCEPT !.pc = IF task.i < Len(task.fetched) /\ ~task.is_cancelled
                                   THEN "item" ELSE "check_store"]
    /\ UNCHANGED <<taskLog, cacheVars, dmVars, imageVars>>

\* the item is processed, appended and emitted
WorkshopItem ==
    /\ task.pc = "item"
    /\ task' = ProcessNext(task)
    /\ taskLog' = LogSignal(LogSignal(taskLog, "item_loaded",
                                      _process_workshop_item(task.fetched[task.i + 1])),
                            "loading_progress", <<>>)
    /\ UNCHANGED <<cacheVars, dmVars, imageVars>>

\* "if not self.is_cancelled:" after the loop
WorkshopCheckStore ==
    /\ task.pc = "check_store"
    /\ task' = [task EXCEPT !.pc = IF task.is_cancelled THEN "done" ELSE "store"]
    /\ UNCHANGED <<taskLog, cacheVars, dmVars, imageVars>>

\* the list the thread stores and emits
Result(t) == IF t.kind = "workshop" THEN t.processed_items ELSE t.fetched

\* "self.cache.set(cache_key, result, ttl=...)"
RunStore ==
    /\ task.pc = "store"
    /\ ApplyCache(Cache_set(Cache, CacheKeyOf(task), Result(task),
                            <<TtlOf(task.kind)>>, now),
                  "set", CacheKeyOf(task))
    /\ task' = [task EXCEPT !.pc = "emit_loaded"]
    /\ taskLog' = [taskLog EXCEPT !.writes = @ + 1]
    /\ UNCHANGED <<now, dmVars, imageVars>>

\* the result is emitted; the game loader goes on to _load_additional_games
RunEmitLoaded ==
    /\ task.pc = "emit_loaded"
    /\ taskLog' = LogSignal((IF task.kind = "search" THEN taskLog
                             ELSE LogSignal(taskLog, "loading_progress", <<>>)),
                            ResultSignal(task.kind), Result(task))
    /\ task' = [task EXCEPT !.pc = IF task.kind = "game" THEN "additional" ELSE "done"]
    /\ UNCHANGED <<cacheVars, dmVars, imageVars>>

\* _load_additional_games: "if self.is_cancelled: return"
GameAdditionalCheck ==
    /\ task.pc = "additional"
    /\ task' = [task EXCEPT !.pc = IF task.is_cancelled THEN "done"
                                   ELSE "additional_fetch"]
    /\ UNCHANGED <<taskLog, cacheVars, dmVars, imageVars>>

\* "all_games = self.steam_api.get_popular_games(limit=200)"
GameAdditionalFetch ==
    /\ task.pc = "additional_fetch"
    /\ task' = [task EXCEPT !.all_games = get_popular_games(AllLimit),
                            !.pc = "additional_publish"]
    /\ taskLog' = [taskLog EXCEPT !.fetches = @ + 1]
    /\ UNCHANGED <<cacheVars, dmVars, imageVars>>

\* get_popular_games(limit=200) raised: "except Exception as e: print(...)"
GameAdditionalFetchFails ==
    /\ task.pc = "additional_fetch"
    /\ task' = [task EXCEPT !.pc = "done"]
    /\ taskLog' = [taskLog EXCEPT !.fetches = @ + 1, !.failures = @ + 1]
    /\ UNCHANGED <<cacheVars, dmVars, imageVars>>

\* "if not self.is_cancelled and len(all_games) > 50:" with its body, the
\* whole catalog stored and emitted
GameAdditionalPublish ==
    /\ task.pc = "additional_publish"
    /\ task' = [task EXCEPT !.pc = "done"]
    /\ IF ~task.is_cancelled /\ Len(task.all_games) > PageLimit
       THEN /\ ApplyCache(Cache_set(Cache, AllGamesCacheKey, task.all_games,
                                    <<AllGamesTtl>>, now),
                          "set", AllGamesCacheKey)
            /\ taskLog' = [LogSignal(taskLog, "games_loaded", task.all_games)
                              EXCEPT !.writes = @ + 1]
            /\ UNCHANGED now
       ELSE UNCHANGED <<taskLog, cacheVars>>
    /\ UNCHANGED <<dmVars, imageVars>>

LoaderNext ==
    \/ StartGameLoader
    \/ \E app_id \in AppIds, per_page \in 0..MaxPerPage :
           StartWorkshopLoader(app_id, 1, per_page)
    \/ \E query \in Queries : StartSearch(query)
    \/ TaskCancel
    \/ SearchShortQuery
    \/ RunReadCache
    \/ RunCheckCached
    \/ RunEmitCached
    \/ RunCheckFetch
    \/ RunFetch
    \/ RunFetchFails
    \/ RunCheckError
    \/ RunEmitError
    \/ RunCheckFetched
    \/ WorkshopLoop
    \/ WorkshopItem
    \/ WorkshopCheckStore
    \/ RunStore
    \/ RunEmitLoaded
    \/ GameAdditionalCheck
    \/ GameAdditionalFetch
    \/ GameAdditionalFetchFails
    \/ GameAdditionalPublish

LoaderSpec == Init /\ [][LoaderNext]_vars


(***************************************************************************)
(* Vocabulary of the properties.                                           *)
(***************************************************************************)
NumActive == Cardinality(DOMAIN active_downloads)

\* the paths whose transfer was started by the step: a path new to the active
\* set, or one whose thread object was replaced by a fresh one
StartedInStep ==
    {p \in DOMAIN active_downloads' :
        /\ active_downloads'[p].pc = "start"
        /\ p \in DOMAIN active_downloads => active_downloads[p].pc /= "start"}

\* the step delivers the oldest queued signal, of the given type
Delivers(type) ==
    /\ events /= <<>>
    /\ Head(events).type = type
    /\ events' = Tail(events)

\* the step queues a signal of one of the given types from the worker of p
Posts(p, types) ==
    /\ Len(events') = Len(events) + 1
    /\ events'[Len(events')].path = p
    /\ events'[Len(events')].type \in types

\* a signal of the worker registered under p is still queued
Pending(p) == \E i \in DOMAIN events : events[i].path = p

\* the items start_download can resolve a URL for
Resolvable == {i \in ItemData : Truthy(_get_download_url(i))}

\* the signal names a method emitted, in order
SigNames(m) == [i \in DOMAIN m.signals |-> m.signals[i].sig]

(***************************************************************************)
(* C1. As claimed: in every reachable state the number of active transfers *)
(* is at most max_concurrent_downloads.                                    *)
(***************************************************************************)
C1_ActiveWithinLimit == NumActive <= max_concurrent_downloads

\* C1, amended: no step starts a transfer beyond the limit (after a step that
\* starts one, the active set holds at most max_concurrent_downloads
\* transfers), and the number of active transfers comes to exceed the limit
\* only by a step that lowers the limit, which leaves the running transfers
\* running.
C1_StartsWithinLimit ==
    [][/\ StartedInStep /= {} =>
              Cardinality(DOMAIN active_downloads') <= max_concurrent_downloads'
       /\ (/\ NumActive <= max_concurrent_downloads
           /\ Cardinality(DOMAIN active_downloads') > max_concurrent_downloads')
              => /\ max_concurrent_downloads' < max_concurrent_downloads
                 /\ DOMAIN active_downloads' = DOMAIN active_downloads]_vars

\* a transfer has just been started into the last free slot, with a call
\* waiting in the queue
C1_Witness ==
    /\ NumActive = max_concurrent_downloads
    /\ download_queue /= <<>>
    /\ \E p \in DOMAIN active_downloads : active_downloads[p].pc = "start"

(***************************************************************************)
(* C2. After N start_download calls for resolvable items with pairwise     *)
(* distinct paths and nothing else (no signal handled, the limit M set     *)
(* before the first call), with M < N: exactly M transfers are active,     *)
(* exactly N - M calls are queued, and each of the calls returned true     *)
(* (in every state of such a run, the next such call returns true).        *)
(***************************************************************************)
C2_StartsFillThenQueue ==
    startsOnly >= 0 =>
        /\ max_concurrent_downloads < startsOnly =>
               /\ NumActive = max_concurrent_downloads
               /\ Len(download_queue) = startsOnly - max_concurrent_downloads
        /\ \A i \in BurstItems :
               (Truthy(_get_download_url(i))
                   /\ PathOf(i) \notin ActivePaths \cup QueuedPaths) =>
                   LET m == start_download(Manager, i, DownloadDir)
                   IN ~m.overflow => m.ret = "True"

\* four calls were made under a limit of two: two are active, two are queued
C2_Witness ==
    /\ startsOnly = 4
    /\ max_concurrent_downloads = 2
    /\ Len(download_queue) = 2

(***************************************************************************)
(* C3. As claimed: when a transfer's completion is handled while the queue *)
(* is not empty (and a slot is free once the transfer is removed), exactly *)
(* one queued transfer is started, the one enqueued earliest, and it       *)
(* leaves the queue.                                                       *)
(***************************************************************************)
C3_CompletionStartsEarliestQueued ==
    [][(/\ Delivers("finished")
        /\ download_queue /= <<>>
        /\ Cardinality(DOMAIN active_downloads \ {Head(events).path})
               < max_concurrent_downloads)
          => /\ StartedInStep = {PathOf(Head(download_queue)[1])}
             /\ download_queue' = Tail(download_queue)]_vars

(***************************************************************************)
(* C4. As claimed: the active set and the queue together never hold two    *)
(* tasks for one destination path, and a start_download whose path is      *)
(* already active or queued is rejected (returns false, reports an error). *)
(***************************************************************************)
C4_OneTaskPerPath ==
    /\ \A i, j \in DOMAIN download_queue :
           i /= j => PathOf(download_queue[i][1]) /= PathOf(download_queue[j][1])
    /\ ActivePaths \cap QueuedPaths = {}
    /\ \A i \in Resolvable :
           PathOf(i) \in ActivePaths \cup QueuedPaths =>
               LET m == start_download(Manager, i, DownloadDir)
               IN ~m.overflow =>
                      /\ m.ret = "False"
                      /\ SigNames(m) = <<"download_error">>

(***************************************************************************)
(* C5. As claimed: when the worker of a transfer that was cancelled while  *)
(* running stops, no file exists at the transfer's destination path.       *)
(***************************************************************************)
C5_CancelLeavesNoFile ==
    [][\A p \in DOMAIN active_downloads :
          (/\ active_downloads[p].is_cancelled
           /\ active_downloads[p].pc /= "done"
           /\ p \in DOMAIN active_downloads'
           /\ active_downloads'[p].pc = "done")
             => p \notin files']_vars

(***************************************************************************)
(* C6. As claimed: the worker of a transfer marked cancelled emits neither *)
(* download_finished nor download_error.                                   *)
(***************************************************************************)
C6_NoResultAfterCancel ==
    [][\A p \in DOMAIN active_downloads :
          active_downloads[p].is_cancelled => ~Posts(p, {"finished", "error"})]_vars

(***************************************************************************)
(* C7. As claimed, in the form a finite run decides: once the worker of a  *)
(* cancelled transfer has stopped and no signal of it is left to handle    *)
(* (so nothing the code schedules is outstanding), its path is no longer   *)
(* in the active set.                                                      *)
(***************************************************************************)
C7_CancelledSlotFreed ==
    \A p \in DOMAIN active_downloads :
        ~(/\ active_downloads[p].is_cancelled
          /\ isFinished(active_downloads[p])
          /\ ~Pending(p))

(***************************************************************************)
(* C8. As claimed: the worker of a transfer marked cancelled emits no      *)
(* further progress signal.                                                *)
(***************************************************************************)
C8_NoProgressAfterCancel ==
    [][\A p \in DOMAIN active_downloads :
          active_downloads[p].is_cancelled => ~Posts(p, {"progress"})]_vars

(***************************************************************************)
(* C9. As claimed, in the form a finite run decides: when every worker has *)
(* stopped and every signal has been handled, no accepted call is left     *)
(* waiting in the queue.                                                   *)
(***************************************************************************)
C9_QueuedEventuallyStarted ==
    (/\ \A p \in DOMAIN active_downloads : isFinished(active_downloads[p])
     /\ events = <<>>)
        => download_queue = <<>>

(***************************************************************************)
(* C10. As claimed: handling a normal completion emits download_finished   *)
(* first, with the transfer already removed from the active set; then the  *)
(* next queued item is started if the queue is not empty and a slot is     *)
(* free, and nothing is started otherwise; then all_downloads_finished is  *)
(* emitted, last, if and only if the active set and the queue are empty.   *)
(***************************************************************************)
C10_CompletionOrder ==
    [][Delivers("finished") =>
          LET p == Head(events).path
              m == _on_download_finished(Manager, p, p)
              names == SigNames(m)
              room == /\ download_queue /= <<>>
                      /\ Cardinality(DOMAIN active_downloads \ {p})
                             < max_concurrent_downloads
              allDone == DOMAIN active_downloads' = {} /\ download_queue' = <<>>
          IN /\ names[1] = "download_finished"
             /\ m.signals[1].path = p
             /\ p \notin m.signals[1].active
             /\ IF room
                THEN /\ Len(names) >= 2
                     /\ names[2] = "download_started"
                     /\ m.signals[2].path = PathOf(Head(download_queue)[1])
                     /\ StartedInStep = {PathOf(Head(download_queue)[1])}
                     /\ download_queue' = Tail(download_queue)
                ELSE /\ StartedInStep = {}
                     /\ download_queue' = download_queue
             /\ names = <<"download_finished">>
                        \o (IF room THEN <<"download_started">> ELSE <<>>)
                        \o (IF allDone THEN <<"all_downloads_finished">> ELSE <<>>)]_vars

(***************************************************************************)
(* C11. As claimed: handling the failure of a transfer emits exactly one   *)
(* download_error for its path, first, with the transfer already removed   *)
(* from the active set, and then advances the queue as a completion does:  *)
(* the earliest queued item is started if the queue is not empty and a     *)
(* slot is free, and nothing is started otherwise.                         *)
(***************************************************************************)
C11_FailureAdvancesQueue ==
    [][Delivers("error") =>
          LET p == Head(events).path
              m == _on_download_error(Manager, p, "error")
              room == /\ download_queue /= <<>>
                      /\ Cardinality(DOMAIN active_downloads \ {p})
                             < max_concurrent_downloads
          IN /\ m.signals[1].sig = "download_error"
             /\ m.signals[1].path = p
             /\ p \notin m.signals[1].active
             /\ Cardinality({i \in DOMAIN m.signals :
                                /\ m.signals[i].sig = "download_error"
                                /\ m.signals[i].path = p}) = 1
             /\ IF room
                THEN /\ StartedInStep = {PathOf(Head(download_queue)[1])}
                     /\ download_queue' = Tail(download_queue)
                ELSE /\ StartedInStep = {}
                     /\ download_queue' = download_queue
             /\ active_downloads' = _on_download_finished(Manager, p, p).active
             /\ download_queue' = _on_download_finished(Manager, p, p).queue]_vars

C13_UnresolvableRejected ==
    \A i \in BurstItems :
        LET m == start_download(Manager, i, DownloadDir)
            direct == Get(i, "file_url", <<>>)
        IN /\ (direct = <<>> /\ "publishedfileid" \notin DOMAIN i) =>
                  /\ m.ret = "False"
                  /\ SigNames(m) = <<"download_error">>
                  /\ m.active = active_downloads
                  /\ m.queue = download_queue
           /\ (direct /= <<>> /\ PathOf(i) \in DOMAIN m.active \ ActivePaths) =>
                  m.active[PathOf(i)].url = direct

\* the transfer of the item that has both a direct URL and an identifier is
\* running on its direct URL, a call waits in the queue, and a call with the
\* item that has neither has just been turned down
C13_Witness ==
    /\ PathOf(ItemA) \in ActivePaths
    /\ active_downloads[PathOf(ItemA)].url = ItemA.file_url
    /\ "publishedfileid" \in DOMAIN ItemA
    /\ download_queue /= <<>>
    /\ startsOnly = -1
    /\ start_download(Manager, ItemNoUrl, DownloadDir).ret = "False"

(***************************************************************************)
(* Vocabulary of the cache's properties.                                   *)
(***************************************************************************)
\* the entry under key is present and its age does not exceed its ttl
Live(key) ==
    /\ key \in DOMAIN _memory_cache
    /\ now - _memory_cache[key].timestamp <= _memory_cache[key].ttl

\* the keys in memory whose entries' age exceeds their ttl
ExpiredKeys ==
    {k \in DOMAIN _memory_cache :
        now - _memory_cache[k].timestamp > _memory_cache[k].ttl}

(***************************************************************************)
(* C14. For every key k, value v and ttl t (None standing for the default) *)
(* in every reachable state: a get(k) right after set(k, v, t) returns v,  *)
(* and a get(k) at any later time at which the entry's age exceeds t       *)
(* returns None; and so does a get of any entry in memory whose age        *)
(* exceeds its ttl.                                                        *)
(***************************************************************************)
C14_SetThenGet ==
    /\ \A k \in Keys, v \in Values, ttl \in TtlArgs :
           LET c == Cache_set(Cache, k, v, ttl, now)
           IN /\ Cache_get(c, k, now).ret = v
              /\ \A t \in now..(now + TtlOrDefault(ttl) + 2) :
                     t - now > TtlOrDefault(ttl) => Cache_get(c, k, t).ret = None
    /\ \A k \in ExpiredKeys : Cache_get(Cache, k, now).ret = None

\* a get has just found the entry of its key expired and returned None
C14_Witness ==
    /\ last.op = "get"
    /\ last.removed = {last.key}
    /\ last.ret = None
    /\ now > 0

(***************************************************************************)
(* C15. A get(k) on an entry whose age exceeds its ttl returns None and    *)
(* leaves neither the entry in memory nor a record file of k's name, and   *)
(* get_stats() after it counts one entry less in total_items and in        *)
(* expired_items than before it.                                           *)
(***************************************************************************)
C15_ExpiredReadEvicts ==
    \A k \in ExpiredKeys :
        LET c == Cache_get(Cache, k, now)
            before == Cache_get_stats(Cache, now)
            after == Cache_get_stats(c, now)
        IN /\ c.ret = None
           /\ k \notin DOMAIN c.mem
           /\ _get_cache_filename(k) \notin DOMAIN c.disk
           /\ after.total_items = before.total_items - 1
           /\ after.expired_items = before.expired_items - 1
           /\ \A k2 \in DOMAIN c.mem : c.mem[k2] = _memory_cache[k2]

\* a get has just evicted the expired entry of its key while another entry
\* stays in memory: the entry and its record file are gone and get_stats
\* counts the one that stays
C15_Witness ==
    /\ last.op = "get"
    /\ last.removed = {last.key}
    /\ last.key \notin DOMAIN _memory_cache
    /\ _get_cache_filename(last.key) \notin DOMAIN cache_files
    /\ Cache_get_stats(Cache, now).total_items = 1

(***************************************************************************)
(* C16. cleanup_expired() deletes exactly the entries whose age exceeds    *)
(* their ttl at the time of the call, with their record files, leaves      *)
(* every other entry in memory as it was (data, timestamp, ttl), and       *)
(* returns the number of entries it deleted.                               *)
(***************************************************************************)
C16_CleanupRemovesExactlyExpired ==
    LET c == Cache_cleanup_expired(Cache, now)
    IN /\ DOMAIN c.mem = DOMAIN _memory_cache \ ExpiredKeys
       /\ c.removed = ExpiredKeys
       /\ \A k \in DOMAIN c.mem : c.mem[k] = _memory_cache[k]
       /\ \A k \in ExpiredKeys : _get_cache_filename(k) \notin DOMAIN c.disk
       /\ c.ret = Cardinality(ExpiredKeys)

\* cleanup_expired has just deleted one entry and left a live one
C16_Witness ==
    /\ last.op = "cleanup_expired"
    /\ last.count = 1
    /\ Cardinality(last.removed) = 1
    /\ \E k \in Keys : Live(k)

(***************************************************************************)
(* C17. As claimed: get_or_set(key, factory_func) on a key with a live     *)
(* entry does not call factory_func and returns the stored value, whatever *)
(* value is stored; on a key with no live entry it calls factory_func      *)
(* once and, when that returns, stores the result under the key and        *)
(* returns it.                                                             *)
(***************************************************************************)
C17_GetOrSetCallsProducerOnMissOnly ==
    \A k \in Keys, factory_func \in Factories, ttl \in TtlArgs :
        LET c == Cache_get_or_set(Cache, k, factory_func, ttl, now)
        IN IF Live(k)
           THEN /\ c.calls = 0
                /\ c.ret = _memory_cache[k].data
           ELSE /\ c.calls = 1
                /\ ~factory_func.raises =>
                       /\ ~c.raised
                       /\ c.ret = factory_func.value
                       /\ k \in DOMAIN c.mem
                       /\ c.mem[k].data = factory_func.value

(***************************************************************************)
(* C18. As claimed: the keys of the entries in memory have pairwise        *)
(* distinct record file names, and each of them is the key that            *)
(* _get_key_from_filename reads back from its record file name.            *)
(***************************************************************************)
C18_FilenameInjectiveReversible ==
    /\ \A k1, k2 \in DOMAIN _memory_cache :
           k1 /= k2 => _get_cache_filename(k1) /= _get_cache_filename(k2)
    /\ \A k \in DOMAIN _memory_cache :
           _get_key_from_filename(_get_cache_filename(k)) = k

(***************************************************************************)
(* C19. As claimed: when a new Cache is built over the directory, every    *)
(* live entry of the old instance whose record file holds it is in the new *)
(* instance's memory under the same key with the same data, timestamp and  *)
(* ttl, every live readable record file is kept, and every expired or      *)
(* unreadable record file is deleted and gives no entry.                   *)
(***************************************************************************)
C19_RestartLoadsLiveEntries ==
    [][CacheRestart =>
          /\ \A k \in DOMAIN _memory_cache :
                 (/\ Live(k)
                  /\ _get_cache_filename(k) \in DOMAIN cache_files
                  /\ cache_files[_get_cache_filename(k)] = _memory_cache[k])
                     => /\ k \in DOMAIN _memory_cache'
                        /\ _memory_cache'[k] = _memory_cache[k]
          /\ \A f \in DOMAIN cache_files :
                 IF cache_files[f] /= Corrupt /\ ~Expired(cache_files[f], now)
                 THEN /\ f \in DOMAIN cache_files'
                      /\ cache_files'[f] = cache_files[f]
                 ELSE /\ f \notin DOMAIN cache_files'
                      /\ _get_key_from_filename(f) \notin DOMAIN _memory_cache']_vars

(***************************************************************************)
(* C20. As claimed: delete(key) returns true exactly when memory held an   *)
(* entry for the key, leaves neither the entry nor a record file of the    *)
(* key's name, and leaves the entry and the record file of every other key *)
(* in memory as they were.                                                 *)
(***************************************************************************)
C20_DeleteFrame ==
    \A k \in Keys :
        LET c == Cache_delete(Cache, k)
        IN /\ c.ret = "True" <=> k \in DOMAIN _memory_cache
           /\ k \notin DOMAIN c.mem
           /\ k \in DOMAIN _memory_cache =>
                  _get_cache_filename(k) \notin DOMAIN c.disk
           /\ \A k2 \in DOMAIN _memory_cache \ {k} :
                  /\ k2 \in DOMAIN c.mem
                  /\ c.mem[k2] = _memory_cache[k2]
                  /\ _get_cache_filename(k2) \in DOMAIN cache_files =>
                         /\ _get_cache_filename(k2) \in DOMAIN c.disk
                         /\ c.disk[_get_cache_filename(k2)]
                                = cache_files[_get_cache_filename(k2)]

\* the patterns invalidate_pattern is asked about: the empty one, single
\* characters, parts of a key that are not at its start, a whole key, and one
\* that no key contains
Patterns ==
    {<<>>, <<"a">>, <<"_">>, <<"/">>, <<"_", "b">>, <<"b">>, KeyUnder, <<"b", "a">>}

\* pattern occurs in key as a contiguous run of characters
IsSubstring(pattern, key) ==
    \E i \in 0..Len(key), j \in 0..Len(key) : SubSeq(key, i + 1, j) = pattern

\* C21: invalidate_pattern(s) deletes exactly the keys that contain s as a
\* literal substring, leaves every other entry as it was, and returns the
\* number of keys it deleted.
C21_InvalidateDeletesExactlyMatching ==
    \A pattern \in Patterns :
        LET c == Cache_invalidate_pattern(Cache, pattern)
            matching == {k \in DOMAIN _memory_cache : IsSubstring(pattern, k)}
        IN /\ DOMAIN c.mem = DOMAIN _memory_cache \ matching
           /\ \A k \in DOMAIN c.mem : c.mem[k] = _memory_cache[k]
           /\ c.removed = matching
           /\ c.ret = Cardinality(matching)

\* invalidate_pattern deleted one of two keys: the one that has the pattern
\* in its middle
C21_Witness ==
    /\ last.op = "invalidate_pattern"
    /\ last.key = <<"_">>
    /\ last.count = 1
    /\ last.removed = {KeyUnder}
    /\ DOMAIN _memory_cache = {KeySlash}

\* the record files of the cache in a directory
RecordFiles(disk) == {f \in DOMAIN disk : EndsWith(f, CacheSuffix)}

\* C22: clear() empties the in-memory map and removes every record file; a
\* second clear() right after it changes neither, and get_stats() reports
\* total_items = 0 after each.
C22_ClearEmptiesAndIsIdempotent ==
    LET c1 == Cache_clear(Cache)
        c2 == Cache_clear(c1)
    IN /\ c1.mem = <<>>
       /\ RecordFiles(c1.disk) = {}
       /\ Cache_get_stats(c1, now).total_items = 0
       /\ c2.mem = c1.mem
       /\ c2.disk = c1.disk
       /\ Cache_get_stats(c2, now).total_items = 0

\* clear() ran on a cache that held entries, and left nothing
C22_Witness ==
    /\ last.op = "clear"
    /\ last.removed /= {}
    /\ _memory_cache = <<>>
    /\ RecordFiles(cache_files) = {}

\* C23: when the write of the record file fails during set(k, v, t), set
\* returns without raising and the in-memory entry is intact: get(k) returns
\* v at every time at which the entry is live.
C23_WriteFailureKeepsEntry ==
    \A key \in Keys, data \in Values, ttl \in TtlArgs, truncated \in BOOLEAN :
        LET c == SetWriteFails(Cache, key, data, ttl, now, truncated)
        IN /\ ~c.raised
           /\ key \in DOMAIN c.mem
           /\ \A t \in now..(now + TtlOrDefault(ttl)) :
                  Cache_get(c, key, t).ret = data

\* a set returned after its write failed: the entry is in memory and the
\* directory has no record file for it
C23_Witness ==
    /\ last.op = "set"
    /\ ~last.raised
    /\ last.key \in DOMAIN _memory_cache
    /\ _memory_cache[last.key].data = <<"x">>
    /\ _get_cache_filename(last.key) \notin DOMAIN cache_files

\* C24: after any sequence of calls, a get(k) that begins after a set(k, v, t)
\* returned, with no later set or delete of k and the entry still live,
\* returns v.
C24_ReadAfterWrite ==
    \A k \in DOMAIN written :
        ~Expired(written[k], now) =>
            Cache_get(Cache, k, now).ret = written[k].data

\* a sweep ran after a set and after the clock moved, and the entry written
\* is still live
C24_Witness ==
    /\ last.op = "cleanup_expired"
    /\ KeyUnder \in DOMAIN written
    /\ written[KeyUnder].timestamp < now
    /\ ~Expired(written[KeyUnder], now)
    /\ written[KeyUnder].data = <<"x">>

(***************************************************************************)
(* Vocabulary of the loader properties.                                    *)
(***************************************************************************)
ResultSignals == {"games_loaded", "workshop_loaded", "search_results"}
ErrorSignals == {"loading_error", "search_error"}

\* the events of the running thread that carry the given signals
EventsOf(sigs) == SelectSeq(taskLog.emitted, LAMBDA e : e.sig \in sigs)

\* the values the events carry, in the order of the events
ValuesOf(evs) == [n \in DOMAIN evs |-> evs[n].value]

\* the run found no entry under its key
Missed == task.cached.is_none

\* the run ended and cancel() was never called on it
Completed == task.pc = "done" /\ ~task.is_cancelled

\* no call of the API raised during the run
NoFailure == taskLog.failures = 0

\* C25: once cancel() has been called on a game, workshop or search loader,
\* the thread emits no further success event and no error event, wherever in
\* run() the call comes.
C25_NoEventAfterCancel ==
    \A n \in DOMAIN taskLog.emitted :
        taskLog.emitted[n].sig \in ResultSignals \cup ErrorSignals
            => ~taskLog.emitted[n].cancelled

\* C26: on a cache miss and without cancellation the game loader emits
\* games_loaded twice: first the first page of the catalog, stored under
\* "popular_games_list" with ttl 1 hour, then the larger catalog, stored with
\* ttl 2 hours.
C26_GamesLoadedTwice ==
    (task.kind = "game" /\ Missed /\ Completed /\ NoFailure) =>
        LET evs == EventsOf({"games_loaded"})
        IN /\ Len(evs) = 2
           /\ evs[1].value = get_popular_games(PageLimit)
           /\ GameCacheKey \in DOMAIN _memory_cache
           /\ _memory_cache[GameCacheKey].data = evs[1].value
           /\ _memory_cache[GameCacheKey].ttl = GamesTtl
           /\ Len(evs[2].value) > Len(evs[1].value)
           /\ AllGamesCacheKey \in DOMAIN _memory_cache
           /\ _memory_cache[AllGamesCacheKey].data = evs[2].value
           /\ _memory_cache[AllGamesCacheKey].ttl = AllGamesTtl

\* C27: when the cache holds a live entry under the loader's key, the run
\* fetches nothing and, run to its end without cancellation, emits exactly one
\* success event, which carries the cached value; for every value a run of
\* the loader can have stored, the empty list included.
C27_HitMeansNoFetch ==
    (task.kind \in {"game", "workshop", "search"} /\ ~Missed) =>
        /\ taskLog.fetches = 0
        /\ Completed =>
               /\ Len(EventsOf(ResultSignals)) = 1
               /\ EventsOf(ResultSignals)[1].sig = ResultSignal(task.kind)
               /\ EventsOf(ResultSignals)[1].value = task.cached.value

\* C28: on a cache miss and without cancellation the workshop loader emits
\* one item_loaded per fetched item, in the order fetched, then one
\* workshop_loaded; the list it carries is the sequence of the items emitted,
\* and is the list stored under the key made of game id, page and page size.
C28_ItemsThenList ==
    (task.kind = "workshop" /\ Missed /\ Completed /\ NoFailure) =>
        LET items == EventsOf({"item_loaded"})
            lists == EventsOf({"workshop_loaded"})
            emitted == taskLog.emitted
            key == WorkshopCacheKey(task.app_id, task.page, task.per_page)
        IN /\ Len(items) = Len(task.fetched)
           /\ \A n \in DOMAIN items :
                  /\ items[n].value.publishedfileid = task.fetched[n].publishedfileid
                  /\ items[n].value = _process_workshop_item(task.fetched[n])
           /\ Len(lists) = 1
           /\ emitted[Len(emitted)].sig = "workshop_loaded"
           /\ lists[1].value = ValuesOf(items)
           /\ key \in DOMAIN _memory_cache
           /\ _memory_cache[key].data = lists[1].value
           /\ _memory_cache[key].ttl = WorkshopTtl

\* a workshop run of two items ended uncancelled after a miss
C28_Witness ==
    /\ task.kind = "workshop"
    /\ Missed
    /\ Completed
    /\ Len(task.fetched) = 2
    /\ Len(EventsOf({"item_loaded"})) = 2
    /\ Len(EventsOf({"workshop_loaded"})) = 1

\* C29: for a query shorter than 2 characters the search loader emits an
\* empty result, and neither reads nor writes the cache nor fetches.
C29_ShortQueryShortCircuits ==
    (task.kind = "search" /\ Len(task.query) < MinQueryLen) =>
        /\ taskLog.reads = 0
        /\ taskLog.writes = 0
        /\ taskLog.fetches = 0
        /\ task.pc = "done" =>
               /\ Len(taskLog.emitted) = 1
               /\ taskLog.emitted[1].sig = "search_results"
               /\ taskLog.emitted[1].value = <<>>

\* a search for a query of one character ended
C29_Witness ==
    /\ task.kind = "search"
    /\ task.query = <<"a">>
    /\ task.pc = "done"
    /\ Len(taskLog.emitted) = 1

\* the games of the catalog whose name contains the query, letter case
\* disregarded
MatchingGames(query) ==
    {popular_games[n] : n \in {m \in DOMAIN popular_games :
                                  IsSubstring(Lower(query), LowerNames[m])}}

\* the result of the search that ended is exactly the matching games, each
\* once
ResultIsExact ==
    LET evs == EventsOf({"search_results"})
    IN /\ Len(evs) = 1
       /\ Range(evs[1].value) = MatchingGames(task.query)
       /\ Len(evs[1].value) = Cardinality(MatchingGames(task.query))

\* two queries that differ in letter case only have one cache key
SameKeyAcrossCase ==
    \A q1 \in Queries, q2 \in Queries :
        Lower(q1) = Lower(q2) => SearchCacheKey(q1) = SearchCacheKey(q2)

\* C30 as stated: for a query of at least 2 characters and an empty cache the
\* result of the search loader is exactly the set of catalog records whose
\* name contains the query case-insensitively, and two queries that differ
\* only in letter case use the same cache key.
C30_SearchExactFromTwoChars ==
    /\ (task.kind = "search" /\ Len(task.query) >= MinQueryLen /\ Missed /\ Completed
            /\ NoFailure)
           => ResultIsExact
    /\ SameKeyAcrossCase

\* C30, amended: for a query of at least 2 characters after its leading and
\* trailing whitespace is removed, and an empty cache, the result of the
\* search loader is exactly the set of catalog records whose name contains the
\* query case-insensitively; two queries that differ only in letter case use
\* the same cache key.
C30_SearchExactFromTwoCharsStripped ==
    /\ (task.kind = "search" /\ Len(Strip(task.query)) >= MinQueryLen
            /\ Missed /\ Completed /\ NoFailure)
           => ResultIsExact
    /\ SameKeyAcrossCase

\* a search for 'Do' over an empty cache ended with the two games whose name
\* contains 'do'
C30_Witness ==
    /\ task.kind = "search"
    /\ task.query = <<"D", "o">>
    /\ Missed
    /\ Completed
    /\ taskLog.fetches = 1
    /\ Len(EventsOf({"search_results"})) = 1
    /\ Len(EventsOf({"search_results"})[1].value) = 2

(***************************************************************************)
(* Vocabulary of the filename property.                                    *)
(***************************************************************************)
\* the characters a filename must not hold
ForbiddenChars == {"<", ">", ":", "/", "\\", "|", "?", "*"}

\* the file name of a destination path under DownloadDir
NameOf(file_path) == SubSeq(file_path, Len(DownloadDir) + 2, Len(file_path))

\* the title with an underscore in the place of every forbidden character and
\* of every blank, the other characters that are not kept dropped
Underscored(title) ==
    LET kept == RStrip(Filter(title, Alnum \cup {" ", "-", "_"} \cup ForbiddenChars))
    IN [n \in DOMAIN kept |->
           IF kept[n] \in ForbiddenChars \cup {" "} THEN "_" ELSE kept[n]]

\* "_", the item identifier and the extension: that of the filename field
\* when it has one, else the default
SuffixOf(item_data) ==
    LET filename == Get(item_data, "filename", <<>>)
    IN <<"_">> \o Get(item_data, "publishedfileid", <<"u", "n", "k", "n", "o", "w", "n">>)
           \o (IF "." \in Range(filename)
               THEN SubSeq(filename, RFindDot(filename), Len(filename))
               ELSE <<".", "z", "i", "p">>)

\* C31: the destination filename computed by start_download for an item holds
\* none of the characters < > : / \ | ? *; where the title held one, an
\* underscore stands in its place; and the name ends with an underscore, the
\* item identifier and the extension.
C31_FilenameUnderscored ==
    \A p \in DOMAIN active_downloads :
        LET item_data == active_downloads[p].item_data
            title == Get(item_data, "title", <<>>)
        IN /\ Range(NameOf(p)) \cap ForbiddenChars = {}
           /\ NameOf(p) = Prefix(Underscored(title), TitleCap) \o SuffixOf(item_data)

\* C32: within one download, the bytes-downloaded values of successive
\* progress events never decrease, and each equals the number of bytes
\* written to the destination file by the time it is emitted; an event
\* queued for the UI thread carries a value that was emitted, and the events
\* queued for one download are in the order of their values.
C32_ProgressMonotoneAndExact ==
    /\ \A p \in DOMAIN active_downloads :
           LET emitted == active_downloads[p].emitted
           IN \A n \in DOMAIN emitted :
                  /\ emitted[n].downloaded = emitted[n].written
                  /\ n > 1 => emitted[n - 1].downloaded <= emitted[n].downloaded
    /\ \A n \in DOMAIN events :
           (events[n].type = "progress" /\ events[n].path \in DOMAIN active_downloads
                /\ active_downloads[events[n].path].emitted /= <<>>)
               => LET emitted == active_downloads[events[n].path].emitted
                  IN /\ \E k \in DOMAIN emitted :
                            events[n].downloaded = emitted[k].downloaded
                     /\ \A m \in DOMAIN events :
                            (m < n /\ events[m].type = "progress"
                                 /\ events[m].path = events[n].path)
                                => events[m].downloaded <= events[n].downloaded

\* a transfer emitted two progress events, the second for a chunk of 2 bytes
C32_Witness ==
    \E p \in DOMAIN active_downloads :
        /\ Len(active_downloads[p].emitted) = 2
        /\ active_downloads[p].emitted[1].downloaded = 1
        /\ active_downloads[p].emitted[2].downloaded = 3
        /\ active_downloads[p].file_bytes = 3

\* C36: work conservation: in every state between two operations of the
\* coordinator, if the queue is not empty then the active set holds at least
\* max_concurrent_downloads transfers.
C36_WorkConservation ==
    download_queue /= <<>> => NumActive >= max_concurrent_downloads

\* the oldest queued worker signal is terminal and its handler can run
TerminalDue ==
    /\ events /= <<>>
    /\ Head(events).type \in {"finished", "error"}
    /\ Waited(Head(events).path)

\* the coordinator after the handler of the oldest queued worker signal ran
AfterTerminal ==
    IF Head(events).type = "finished"
    THEN _on_download_finished(Manager, Head(events).path, Head(events).path)
    ELSE _on_download_error(Manager, Head(events).path, "error")

\* C37: whenever the handling of a transfer's terminal event, success or
\* failure, leaves both the active set and the queue empty,
\* all_downloads_finished is emitted; and it is never emitted in a state in
\* which either is not empty.
C37_AllFinishedIffIdle ==
    TerminalDue =>
        LET m == AfterTerminal
        IN /\ (DOMAIN m.active = {} /\ m.queue = <<>>) <=>
                  (\E n \in DOMAIN m.signals : m.signals[n].sig = "all_downloads_finished")
           /\ \A n \in DOMAIN m.signals :
                  m.signals[n].sig = "all_downloads_finished" =>
                      m.signals[n].active = {} /\ m.signals[n].queued = 0

\* C39: the terminal event of a transfer that was never cancelled is handled
\* once, and the active-set entry removed while it is handled is the entry of
\* the transfer that emitted it: a thread that is registered under the path
\* when the event is handled has emitted that very kind of event.
C39_TerminalRemovesOwnEntry ==
    [][(DeliverFinished \/ DeliverError) =>
           (Head(events).path \in DOMAIN active_downloads =>
               active_downloads[Head(events).path].terminal = Head(events).type)]_vars

\* C40: cancel_download(p) returns True exactly when p is in the active set,
\* changes neither the membership of the active set nor the queue, and for a
\* path that is only queued returns False and leaves the queued call in place.
C40_CancelDownloadFrame ==
    \A p \in Paths :
        LET m == cancel_download(Manager, p)
        IN /\ (m.ret = "True") <=> (p \in ActivePaths)
           /\ m.ret \in {"True", "False"}
           /\ DOMAIN m.active = ActivePaths
           /\ m.queue = download_queue
           /\ \A q \in ActivePaths \ {p} : m.active[q] = active_downloads[q]
           /\ (p \in QueuedPaths \ ActivePaths) => m.ret = "False"

\* a running transfer was cancelled while a call for another path waits in
\* the queue, and cancel_download for the queued path is turned down
C40_Witness ==
    \E p \in ActivePaths, q \in QueuedPaths \ ActivePaths :
        /\ active_downloads[p].is_cancelled
        /\ cancel_download(Manager, q).ret = "False"
        /\ cancel_download(Manager, q).queue = download_queue

\* C38: after any sequence of set, get, delete, cleanup_expired,
\* invalidate_pattern and clear on one cache instance, with no I/O failure,
\* the record files are exactly the files named after the keys in memory:
\* every in-memory entry has its record, and no record is without an entry.
C38_RecordsMatchMemory ==
    RecordFiles(cache_files) = {_get_cache_filename(k) : k \in DOMAIN _memory_cache}

\* C35: when a fetch of a loader thread that is never cancelled fails, the
\* thread emits exactly one error event, emits no result event in that run,
\* and writes nothing to the cache.
C35_FetchFailureBecomesOneError ==
    (task.kind \in {"game", "workshop", "search"} /\ taskLog.failures > 0 /\ Completed) =>
        /\ Len(EventsOf(ErrorSignals)) = 1
        /\ EventsOf(ErrorSignals)[1].sig = ErrorSignal(task.kind)
        /\ EventsOf(ResultSignals) = <<>>
        /\ taskLog.writes = 0

(***************************************************************************)
(* The thumbnail loader (image_loader.py).  The loader lives in the UI     *)
(* thread: load_image, the slot of the network manager's finished signal,  *)
(* cancel_all_requests and the slot of the cleanup timer run one at a      *)
(* time.  A reply is the handle network_manager.get returns, given by the  *)
(* number of the request, its URL and, as history, the label it was        *)
(* requested for.  A cache file holds image data that loadFromData has     *)
(* decoded (line 116 precedes line 124), so QPixmap(cache_path) is never   *)
(* null; the file system does not fail.                                    *)
(***************************************************************************)
MaxDays == 8
MaxReplies == 3

\* the QLabel objects load_image is called for
Labels == {"label1", "label2"}

UrlJpg == <<"a">>
UrlPng == <<"b", ".", "P", "N", "G">>
Urls == {UrlJpg, UrlPng}

\* the cache age below which a file is delivered, in seconds (line 147)
FreshAge == 86400
\* max_age of _cleanup_cache, 86400 * 7 (line 239)
max_age == 604800

\* the outcomes of a request: reply.error() is set, readAll() is empty,
\* loadFromData fails, or the data decode to a pixmap
Outcomes == {"error", "empty", "format", "ok"}

\* the image the server holds at a URL, and the pixmap its data decode to
ImageData(url) == [image_of |-> url]
Pixmap(image_data) == [pixmap_of |-> image_data]

ImageSignal(name, label, payload) == [sig |-> name, label |-> label, payload |-> payload]

Reply(n, url, target_label) == [id |-> n, url |-> url, target |-> target_label]

\* hashlib.md5(url.encode()).hexdigest(): distinct for the URLs of the model
Md5(url) == [md5 |-> url]

KnownExtensions == {<<".", "p", "n", "g">>, <<".", "g", "i", "f">>,
                    <<".", "b", "m", "p">>, <<".", "w", "e", "b", "p">>}

\* str.rfind(ch): the last position of ch in s, 0 when there is none
RFind(s, ch) ==
    IF \E n \in DOMAIN s : s[n] = ch
    THEN CHOOSE n \in DOMAIN s : s[n] = ch /\ \A m \in DOMAIN s : s[m] = ch => m <= n
    ELSE 0

\* ImageLoader._get_cache_filename
_get_image_cache_filename(url) ==
    LET extension ==
            IF \E e \in KnownExtensions : EndsWith(Lower(url), e)
            THEN Lower(SubSeq(url, RFind(url, "."), Len(url)))
            ELSE <<".", "j", "p", "g">>
    IN  [url_hash |-> Md5(url), extension |-> extension]

RemoveFiles(image_cache, names) ==
    [f \in DOMAIN image_cache \ names |-> image_cache[f]]

\* the loader as a record of its fields and of its cache directory
ImageLoader == [active_requests |-> active_requests, loading_labels |-> loading_labels,
                image_files |-> image_files]

\* mutant of _get_cached_image: a file of exactly 24 hours is still delivered
GetCachedImageInclusive(self, url, t) ==
    LET cache_path == _get_image_cache_filename(url) IN
    IF cache_path \in DOMAIN self.image_files
    THEN IF t - self.image_files[cache_path].mtime <= FreshAge
         THEN [image_files |-> self.image_files,
               ret |-> Some(Pixmap(self.image_files[cache_path].data)), removed |-> {}]
         ELSE [image_files |-> RemoveFiles(self.image_files, {cache_path}),
               ret |-> Nothing, removed |-> {cache_path}]
    ELSE [image_files |-> self.image_files, ret |-> Nothing, removed |-> {}]

\* _get_cached_image at time t: the files it leaves, the pixmap it returns
\* and the files it removed
_get_cached_image(self, url, t) ==
    LET cache_path == _get_image_cache_filename(url) IN
    IF cache_path \in DOMAIN self.image_files
    THEN IF t - self.image_files[cache_path].mtime < FreshAge
         THEN [image_files |-> self.image_files,
               ret |-> Some(Pixmap(self.image_files[cache_path].data)), removed |-> {}]
         ELSE [image_files |-> RemoveFiles(self.image_files, {cache_path}),
               ret |-> Nothing, removed |-> {cache_path}]
    ELSE [image_files |-> self.image_files, ret |-> Nothing, removed |-> {}]

_cache_image(image_cache, url, image_data, t) ==
    LET cache_path == _get_image_cache_filename(url) IN
    [f \in DOMAIN image_cache \cup {cache_path} |->
        IF f = cache_path THEN [mtime |-> t, data |-> image_data] ELSE image_cache[f]]

\* what a call leaves of the loader, with the signals it emitted, the
\* replies it issued and the cache files it removed
Outcome(requests, labels, image_cache, emitted, issued, removed) ==
    [active_requests |-> requests, loading_labels |-> labels, image_files |-> image_cache,
     emitted |-> emitted, issued |-> issued, removed |-> removed]

Untouched(self) ==
    Outcome(self.active_requests, self.loading_labels, self.image_files, <<>>, {}, {})

\* mutant of load_image: no check of loading_labels
LoadImageUnchecked(self, url, target_label, reply, t) ==
    LET cached == _get_cached_image(self, url, t) IN
    IF url = <<>> THEN Untouched(self)
    ELSE IF ~cached.ret.is_none
    THEN Outcome(self.active_requests, self.loading_labels, cached.image_files,
                 <<ImageSignal("image_loaded", target_label, cached.ret.value)>>,
                 {}, cached.removed)
    ELSE Outcome(self.active_requests @@ (reply :> target_label),
                 self.loading_labels \cup {target_label}, cached.image_files,
                 <<>>, {reply}, cached.removed)

\* load_image(url, target_label) at time t, where reply is the handle
\* network_manager.get would return
load_image(self, url, target_label, reply, t) ==
    LET cached == _get_cached_image(self, url, t) IN
    IF url = <<>> THEN Untouched(self)
    ELSE IF target_label \in self.loading_labels THEN Untouched(self)
    ELSE IF ~cached.ret.is_none
    THEN Outcome(self.active_requests, self.loading_labels, cached.image_files,
                 <<ImageSignal("image_loaded", target_label, cached.ret.value)>>,
                 {}, cached.removed)
    ELSE Outcome(self.active_requests @@ (reply :> target_label),
                 self.loading_labels \cup {target_label}, cached.image_files,
                 <<>>, {reply}, cached.removed)

\* the error text the handler emits for an outcome
ErrorText(outcome) ==
    CASE outcome = "error" -> "errorString"
      [] outcome = "empty" -> "empty data"
      [] OTHER -> "bad format"

\* _on_request_finished(reply) at time t for a reply that ended with outcome
_on_request_finished(self, reply, outcome, t) ==
    IF reply \notin DOMAIN self.active_requests THEN Untouched(self)
    ELSE LET target_label == self.active_requests[reply]
             requests == [r \in DOMAIN self.active_requests \ {reply} |->
                             self.active_requests[r]]
             labels == self.loading_labels \ {target_label}
         IN  IF outcome = "ok"
             THEN Outcome(requests, labels,
                          _cache_image(self.image_files, reply.url, ImageData(reply.url), t),
                          <<ImageSignal("image_loaded", target_label,
                                        Pixmap(ImageData(reply.url)))>>, {}, {})
             ELSE Outcome(requests, labels, self.image_files,
                          <<ImageSignal("image_error", target_label, ErrorText(outcome))>>,
                          {}, {})

\* the replies of a mapping in the order of their creation
RECURSIVE InOrder(_)
InOrder(replies) ==
    IF replies = {} THEN <<>>
    ELSE LET first == CHOOSE r \in replies : \A q \in replies : r.id <= q.id
         IN  <<first>> \o InOrder(replies \ {first})

\* the loop of cancel_all_requests over the replies left: abort() ends the
\* request with an error and emits finished, whose slot runs at once
RECURSIVE AbortAll(_, _, _)
AbortAll(self, replies, t) ==
    IF replies = <<>> THEN self
    ELSE LET after == _on_request_finished(self, Head(replies), "error", t)
         IN  AbortAll([after EXCEPT !.emitted = self.emitted \o after.emitted],
                      Tail(replies), t)

cancel_all_requests(self, t) ==
    LET after == AbortAll(Untouched(self), InOrder(DOMAIN self.active_requests), t)
    IN  Outcome(<<>>, {}, after.image_files, after.emitted, {}, {})

\* _cleanup_cache at time t
_cleanup_cache(self, t) ==
    LET old == {f \in DOMAIN self.image_files : t - self.image_files[f].mtime > max_age}
    IN  Outcome(self.active_requests, self.loading_labels,
                RemoveFiles(self.image_files, old), <<>>, {}, old)

\* a call on the loader leaves the state after and last_image describes it
ImageCall(op, url, label, after) ==
    /\ active_requests' = after.active_requests
    /\ loading_labels' = after.loading_labels
    /\ image_files' = after.image_files
    /\ network' = (network \cap DOMAIN after.active_requests) \cup after.issued
    /\ replies_created' = replies_created + Cardinality(after.issued)
    /\ last_image' = [op |-> op, url |-> url, label |-> label, emitted |-> after.emitted,
                      issued |-> after.issued, removed |-> after.removed]
    /\ UNCHANGED <<dmVars, loaderVars, _memory_cache, cache_files, now, last, written>>

LoadImage(url, target_label) ==
    /\ replies_created < MaxReplies
    /\ ImageCall("load_image", url, target_label,
                 load_image(ImageLoader, url, target_label,
                            Reply(replies_created + 1, url, target_label), now))

\* the network manager finishes a reply and the slot of its signal runs
RequestFinished(reply, outcome) ==
    /\ reply \in network
    /\ ImageCall("_on_request_finished", reply.url, reply.target,
                 _on_request_finished(ImageLoader, reply, outcome, now))

CancelAllRequests ==
    /\ ImageCall("cancel_all_requests", <<>>, "", cancel_all_requests(ImageLoader, now))

\* the cleanup timer fires
CleanupCache ==
    /\ ImageCall("_cleanup_cache", <<>>, "", _cleanup_cache(ImageLoader, now))

\* a day passes
ImageTick ==
    /\ now < MaxDays * FreshAge
    /\ now' = now + FreshAge
    /\ UNCHANGED <<dmVars, loaderVars, imageVars, _memory_cache, cache_files, last, written>>

ImageNext ==
    \/ \E url \in Urls \cup {<<>>}, target_label \in Labels : LoadImage(url, target_label)
    \/ \E n \in 1..MaxReplies, url \in Urls, target_label \in Labels, outcome \in Outcomes :
          RequestFinished(Reply(n, url, target_label), outcome)
    \/ CancelAllRequests
    \/ CleanupCache
    \/ ImageTick

ImageSpec == Init /\ [][ImageNext]_vars

\* the fetches in flight that were requested for a label
FetchesFor(label) == {reply \in network : reply.target = label}

\* what load_image(url, label) would do in the state
LoadNow(url, label) ==
    load_image(ImageLoader, url, label, Reply(replies_created + 1, url, label), now)

\* the file the image cache holds for a URL, and its age
CachedFile(url) == image_files[_get_image_cache_filename(url)]
IsCached(url) == _get_image_cache_filename(url) \in DOMAIN image_files
CachedAge(url) == now - CachedFile(url).mtime

\* C33: no target has more than one thumbnail fetch in flight: a load
\* request for a target with a fetch in flight starts no fetch, and a load
\* request for a target with none (none was started, the fetch completed
\* with an image or an error, or all requests were cancelled) is accepted,
\* that is, it delivers a cached image or starts a fetch.
C33_OneFetchPerTarget ==
    /\ \A label \in Labels : Cardinality(FetchesFor(label)) <= 1
    /\ \A label \in Labels, url \in Urls :
          IF FetchesFor(label) # {}
          THEN LoadNow(url, label).issued = {}
          ELSE LoadNow(url, label).issued # {} \/ LoadNow(url, label).emitted # <<>>
    /\ last_image.op = "cancel_all_requests" => network = {}
    /\ last_image.op = "_on_request_finished" => FetchesFor(last_image.label) = {}

\* a load request was ignored for a target whose fetch is in flight, after an
\* earlier fetch had completed or been cancelled
C33_Witness ==
    /\ last_image.op = "load_image"
    /\ last_image.url # <<>>
    /\ last_image.issued = {}
    /\ last_image.emitted = <<>>
    /\ \E reply \in FetchesFor(last_image.label) : reply.id > 1

\* C34 as stated: a load for a URL whose cached file is younger than 24
\* hours delivers the cached image and starts no fetch, a load for a URL
\* whose cached file is 24 hours old or older delivers nothing from the
\* cache and starts a fetch, and the sweep deletes exactly the cached files
\* older than 7 days.
C34_CacheAgeRules ==
    /\ \A label \in Labels, url \in Urls :
          IsCached(url) =>
              IF CachedAge(url) < 24 * 3600
              THEN /\ LoadNow(url, label).emitted =
                          <<ImageSignal("image_loaded", label, Pixmap(CachedFile(url).data))>>
                   /\ LoadNow(url, label).issued = {}
              ELSE /\ LoadNow(url, label).emitted = <<>>
                   /\ LoadNow(url, label).issued # {}
    /\ _cleanup_cache(ImageLoader, now).removed =
          {f \in DOMAIN image_files : now - image_files[f].mtime > 7 * 24 * 3600}
    /\ DOMAIN _cleanup_cache(ImageLoader, now).image_files =
          {f \in DOMAIN image_files : now - image_files[f].mtime <= 7 * 24 * 3600}

\* C34, amended: the two rules for a load hold when no fetch is in flight
\* for the target of the load; a load for a target with a fetch in flight
\* delivers nothing and starts nothing, whatever the cache holds.
C34_CacheAgeRulesForIdleTarget ==
    /\ \A label \in Labels, url \in Urls :
          IsCached(url) =>
              IF FetchesFor(label) # {}
              THEN /\ LoadNow(url, label).emitted = <<>>
                   /\ LoadNow(url, label).issued = {}
              ELSE IF CachedAge(url) < 24 * 3600
              THEN /\ LoadNow(url, label).emitted =
                          <<ImageSignal("image_loaded", label, Pixmap(CachedFile(url).data))>>
                   /\ LoadNow(url, label).issued = {}
              ELSE /\ LoadNow(url, label).emitted = <<>>
                   /\ LoadNow(url, label).issued # {}
    /\ _cleanup_cache(ImageLoader, now).removed =
          {f \in DOMAIN image_files : now - image_files[f].mtime > 7 * 24 * 3600}
    /\ DOMAIN _cleanup_cache(ImageLoader, now).image_files =
          {f \in DOMAIN image_files : now - image_files[f].mtime <= 7 * 24 * 3600}

\* a load found a cached file of 24 hours or more, removed it and started a
\* fetch, and the sweep has a file older than 7 days to delete
C34_Witness ==
    /\ last_image.op = "load_image"
    /\ last_image.removed # {}
    /\ last_image.issued # {}
    /\ _cleanup_cache(ImageLoader, now).removed # {}

====
